---- MODULE Spec2Model ----
(***************************************************************************)
(* Verification pipeline of the_synapsys-verifier: the OpenID4VP session   *)
(* state machine (sessionService.ts), the direct_post handler              *)
(* (routes/directPost.ts), the authorization step, the presentation        *)
(* matcher (lib/presentationDefinition.ts), the trust resolver (resolveDID *)
(* and isTrustedIssuer with their caches) and the credential validator     *)
(* (validateVC, validateVCBatch).                                          *)
(*                                                                         *)
(* Every request handler is cut at its awaits on the database: one action  *)
(* per database statement together with the synchronous code that follows  *)
(* it up to the next await.  The handlers waiting for their write are kept *)
(* as a bag: a handler has no identity beyond its position and its local   *)
(* variables.  Time is counted in units of the session lifetime            *)
(* (15 minutes).                                                           *)
(***************************************************************************)
EXTENDS Integers, Sequences, FiniteSets, Bags, TLC

VARIABLES now, sessions, inflight, completions, matcher,
          didCache, trustAnchorCache, upstream, batch, sdjwt, mdoc,
          auditLog, lastAppend, metadata, rateLimit

vars == <<now, sessions, inflight, completions, matcher,
          didCache, trustAnchorCache, upstream, batch, sdjwt, mdoc,
          auditLog, lastAppend, metadata, rateLimit>>

(* the variables of the session state machine and those it leaves alone *)
sessionVars == <<now, sessions, inflight, completions>>
resolverVars == <<didCache, trustAnchorCache, upstream>>
auditVars == <<auditLog, lastAppend>>
webVars == <<metadata, rateLimit>>
sessionFrame == <<matcher, didCache, trustAnchorCache, upstream, batch, sdjwt, mdoc,
                  auditLog, lastAppend, metadata, rateLimit>>

(* ------------------------------ bounds -------------------------------- *)
MaxTime == 2
MaxSessions == 1
NumProcs == 2
MaxDescriptors == 2
MaxMappings == 2
MaxCredentials == 2
MaxBatch == 2
MaxDisclosures == 2
MaxEntries == 3
MaxClients == 1
MaxCount == 4
RateHorizon == 3

(* one time unit is the 15 minute session lifetime of the authorize route *)
ExpiresIn == 1

(* ------------------------- values of the wire -------------------------- *)
NoValue == "undefined"

(* a time that is not set *)
NoTime == -1

Digits == {"0", "1", "2", "3", "4", "5", "6", "7", "8", "9"}

DigitVal(c) ==
  CASE c = "0" -> 0 [] c = "1" -> 1 [] c = "2" -> 2 [] c = "3" -> 3
    [] c = "4" -> 4 [] c = "5" -> 5 [] c = "6" -> 6 [] c = "7" -> 7
    [] c = "8" -> 8 [] c = "9" -> 9 [] OTHER -> 0

(* generateSecureRandom: a fresh unguessable value per session; the state  *)
(* value of session id is written id, its nonce NonceOf(id)               *)
NonceOf(id) == <<"nonce", id>>

(* JSON text: JSON.stringify wraps a value, JSON.parse unwraps it or throws *)
JSONStringify(v) == <<"json", v>>
JSONParses(text) == text[1] = "json"
JSONParse(text) == text[2]
BadJSON == <<"text", 0>>

(* --------------------------- presentation data ------------------------- *)
(* a path is the sequence of its characters; "$[0]" stands for             *)
(* "$.verifiableCredential[0]"                                             *)
Path0 == <<"$", "[", "0", "]">>
Path1 == <<"$", "[", "1", "]">>

Mapping(id, path) == [id |-> id, format |-> "jwt_vc", path |-> path]

(* PresentationSubmission; hasMap = FALSE is a missing descriptor_map *)
SubmissionTable ==
  << [id |-> "sub-1", definition_id |-> "pd-1", hasMap |-> TRUE,
      descriptor_map |-> <<Mapping("id_credential", Path0)>>],
     [id |-> "sub-2", definition_id |-> "pd-2", hasMap |-> TRUE,
      descriptor_map |-> <<Mapping("id_credential", Path0)>>],
     [id |-> "sub-3", definition_id |-> "pd-1", hasMap |-> FALSE,
      descriptor_map |-> <<>>],
     [id |-> "sub-4", definition_id |-> "pd-1", hasMap |-> TRUE,
      descriptor_map |-> <<Mapping("id_credential", Path1)>>] >>

NoSubmission == 0

(* PresentationDefinition: "pd-1" is the definition of the id_credential   *)
(* scenario (no fields), "pd-2" is what createPresentationDefinition       *)
(* builds (one required $.type field)                                      *)
DefinitionTable ==
  << [id |-> "pd-1",
      input_descriptors |->
        <<[id |-> "id_credential", hasFields |-> TRUE, fields |-> <<>>]>>],
     [id |-> "pd-2",
      input_descriptors |->
        <<[id |-> "id_credential", hasFields |-> TRUE,
           fields |-> <<[optional |-> FALSE]>>]>>] >>


(* a credential JWT as validateVC sees it: whether it splits into three   *)
(* parts with a payload that parses, its issuer (a row of DidTable, 0: no  *)
(* iss and no vc.issuer), whether jose verifies it against the key of the  *)
(* issuer, the members of its vc claim, and vc.expirationDate or exp       *)
CredentialTable ==
  << [wellFormed |-> TRUE, issuer |-> 1, sigOk |-> TRUE, context |-> TRUE,
      type |-> TRUE, typeHasVC |-> TRUE, subject |-> TRUE, expirationDate |-> NoTime],
     [wellFormed |-> TRUE, issuer |-> 2, sigOk |-> FALSE, context |-> TRUE,
      type |-> TRUE, typeHasVC |-> TRUE, subject |-> TRUE, expirationDate |-> NoTime],
     [wellFormed |-> TRUE, issuer |-> 2, sigOk |-> TRUE, context |-> TRUE,
      type |-> TRUE, typeHasVC |-> FALSE, subject |-> TRUE, expirationDate |-> 1],
     [wellFormed |-> TRUE, issuer |-> 1, sigOk |-> TRUE, context |-> FALSE,
      type |-> TRUE, typeHasVC |-> TRUE, subject |-> TRUE, expirationDate |-> NoTime],
     [wellFormed |-> TRUE, issuer |-> 5, sigOk |-> TRUE, context |-> TRUE,
      type |-> TRUE, typeHasVC |-> TRUE, subject |-> TRUE, expirationDate |-> NoTime],
     [wellFormed |-> FALSE, issuer |-> 0, sigOk |-> FALSE, context |-> FALSE,
      type |-> FALSE, typeHasVC |-> FALSE, subject |-> FALSE, expirationDate |-> NoTime] >>

(* a VP token: whether it decodes as a JWT, whether its signature verifies, *)
(* the nonce claim (0: none, i: the nonce of session i) and the VP it       *)
(* carries                                                                  *)
VP(sub, creds) == [presentation_submission |-> sub, verifiableCredential |-> creds]

TokenTable ==
  << [decodes |-> TRUE,  sigOk |-> TRUE,  nonce |-> 1, vp |-> VP(1, <<1>>)],
     [decodes |-> FALSE, sigOk |-> FALSE, nonce |-> 0, vp |-> VP(0, <<>>)],
     [decodes |-> TRUE,  sigOk |-> FALSE, nonce |-> 0, vp |-> VP(1, <<2>>)],
     [decodes |-> TRUE,  sigOk |-> TRUE,  nonce |-> 1, vp |-> VP(0, <<1>>)],
     [decodes |-> TRUE,  sigOk |-> TRUE,  nonce |-> 2, vp |-> VP(2, <<1>>)],
     [decodes |-> TRUE,  sigOk |-> TRUE,  nonce |-> 1, vp |-> VP(3, <<1>>)],
     [decodes |-> TRUE,  sigOk |-> TRUE,  nonce |-> 1, vp |-> VP(4, <<1>>)] >>

NoToken == 0
TokenIds == 1..Len(TokenTable)

(* req.body.presentation_submission: absent, a JSON string or an object *)
BodyAbsent == [kind |-> "absent", text |-> BadJSON, value |-> NoSubmission]
BodyString(text) == [kind |-> "string", text |-> text, value |-> NoSubmission]
BodyObject(sub) == [kind |-> "object", text |-> BadJSON, value |-> sub]

(* req.body.state: missing (0) or the state value of a session id *)
NoState == 0

(* the bodies sent to POST /direct_post: every token on its own, and the  *)
(* pairs of token and presentation_submission that differ in the step     *)
(* they fail or in the submission they leave                               *)
Submissions ==
  {<<t, BodyAbsent>> : t \in TokenIds}
    \cup {<<1, BodyString(BadJSON)>>, <<1, BodyString(JSONStringify(3))>>,
          <<1, BodyObject(4)>>, <<2, BodyString(BadJSON)>>,
          <<4, BodyObject(4)>>, <<6, BodyObject(4)>>}

(* the requests: a complete request for every session state value and for *)
(* a state value no session has, one without state and one without token  *)
Requests ==
  {<<NoToken, BodyAbsent, 1>>, <<1, BodyAbsent, NoState>>,
   <<1, BodyAbsent, MaxSessions + 1>>}
    \cup {<<tb[1], tb[2], st>> : tb \in Submissions, st \in 1..MaxSessions}

(* the requests sent to GET /authorize *)
AuthorizeRequests ==
  {<<"vp_token", 1, FALSE>>, <<"vp_token", 2, TRUE>>, <<"code", 1, FALSE>>}

(* ------------------------------ lib/jwt.ts ----------------------------- *)
(* decodeJWT: decodes header and payload and never looks at the signature *)
decodeJWT(token) ==
  IF TokenTable[token].decodes
    THEN [valid |-> TRUE, payload |-> TokenTable[token].vp]
    ELSE [valid |-> FALSE, payload |-> VP(NoSubmission, <<>>)]

(* ---------------------- lib/presentationDefinition.ts ------------------ *)
(* validatePresentationSubmission: id, definition_id, descriptor_map and   *)
(* the id, format and path of every mapping must be present                *)
validatePresentationSubmission(ps) ==
  LET errors ==
        (IF ps.id = NoValue THEN <<"id">> ELSE <<>>)
          \o (IF ps.definition_id = NoValue THEN <<"definition_id">> ELSE <<>>)
          \o (IF ~ps.hasMap THEN <<"descriptor_map">> ELSE <<>>)
          \o (IF \E i \in 1..Len(ps.descriptor_map) :
                   \/ ps.descriptor_map[i].id = NoValue
                   \/ ps.descriptor_map[i].format = NoValue
                   \/ ps.descriptor_map[i].path = <<>>
                THEN <<"descriptor_map_entry">> ELSE <<>>)
  IN [valid |-> errors = <<>>, errors |-> errors]

(* number of consecutive digits of path from position j on *)
RECURSIVE DigitRun(_, _)
DigitRun(path, j) ==
  IF j <= Len(path) /\ path[j] \in Digits THEN 1 + DigitRun(path, j + 1) ELSE 0

(* parseInt(digits, 10) of path[from..to] *)
RECURSIVE ParseInt(_, _, _)
ParseInt(path, from, to) ==
  IF to < from THEN 0 ELSE 10 * ParseInt(path, from, to - 1) + DigitVal(path[to])

(* /\[(\d+)\]/ matches at position i *)
MatchesAt(path, i) ==
  /\ path[i] = "["
  /\ DigitRun(path, i + 1) >= 1
  /\ i + DigitRun(path, i + 1) + 1 <= Len(path)
  /\ path[i + DigitRun(path, i + 1) + 1] = "]"

(* the index taken one-based *)
extractIndexFromPath_OneBased(path) ==
  IF \E i \in 1..Len(path) : MatchesAt(path, i)
    THEN LET i == CHOOSE k \in 1..Len(path) :
                    /\ MatchesAt(path, k)
                    /\ \A m \in 1..(k - 1) : ~MatchesAt(path, m)
         IN ParseInt(path, i + 1, i + DigitRun(path, i + 1)) + 1
    ELSE -1

(* extractIndexFromPath: the index of the first bracketed number, else -1 *)
extractIndexFromPath(path) ==
  IF \E i \in 1..Len(path) : MatchesAt(path, i)
    THEN LET i == CHOOSE k \in 1..Len(path) :
                    /\ MatchesAt(path, k)
                    /\ \A m \in 1..(k - 1) : ~MatchesAt(path, m)
         IN ParseInt(path, i + 1, i + DigitRun(path, i + 1))
    ELSE -1

(* the last entry for id in place of the first *)
FindMapping_Last(map, id) ==
  IF \E i \in 1..Len(map) : map[i].id = id
    THEN CHOOSE i \in 1..Len(map) :
           /\ map[i].id = id
           /\ \A j \in (i + 1)..Len(map) : map[j].id # id
    ELSE 0

(* descriptor_map.find((m) => m.id === id): position of the first entry, 0 if none *)
FindMapping(map, id) ==
  IF \E i \in 1..Len(map) : map[i].id = id
    THEN CHOOSE i \in 1..Len(map) :
           /\ map[i].id = id
           /\ \A j \in 1..(i - 1) : map[j].id # id
    ELSE 0

(* fields?.some((f) => f.optional) and fields?.every((f) => f.optional);   *)
(* both are undefined, hence falsy, when the descriptor has no fields key   *)
SomeOptional(d) == d.hasFields /\ \E i \in 1..Len(d.fields) : d.fields[i].optional
EveryOptional(d) == d.hasFields /\ \A i \in 1..Len(d.fields) : d.fields[i].optional

(* the loop over pd.input_descriptors, descriptors 1..n done *)
RECURSIVE EvaluateLoop(_, _, _, _)
EvaluateLoop(submission, credentials, descriptors, n) ==
  IF n = 0 THEN [errors |-> <<>>, matchedDescriptors |-> <<>>]
  ELSE
    LET acc == EvaluateLoop(submission, credentials, descriptors, n - 1)
        descriptor == descriptors[n]
        m == FindMapping(submission.descriptor_map, descriptor.id)
    IN IF m = 0
         THEN IF ~SomeOptional(descriptor)
                THEN [acc EXCEPT !.errors = Append(@, <<"no_mapping", descriptor.id>>)]
                ELSE acc
         ELSE LET credentialIndex == extractIndexFromPath(submission.descriptor_map[m].path)
              IN IF credentialIndex = -1 \/ credentialIndex + 1 > Len(credentials)
                   THEN [acc EXCEPT !.errors = Append(@, <<"not_found", descriptor.id>>)]
                   ELSE [acc EXCEPT !.matchedDescriptors = Append(@, descriptor.id)]

InSeq(x, seq) == \E i \in 1..Len(seq) : seq[i] = x

(* the presentation a token's payload carries, its submission looked up;  *)
(* hasSubmission = FALSE is a payload without presentation_submission     *)
Presentation(vp) ==
  [hasSubmission |-> vp.presentation_submission # NoSubmission,
   presentation_submission |->
     IF vp.presentation_submission # NoSubmission
       THEN SubmissionTable[vp.presentation_submission]
       ELSE SubmissionTable[3],
   verifiableCredential |-> vp.verifiableCredential]

(* evaluatePresentationSubmission(vp, pd); threw = a TypeError escapes it *)
evaluatePresentationSubmission(vp, pd) ==
  LET none == [threw |-> FALSE, valid |-> FALSE, errors |-> <<>>, matchedDescriptors |-> <<>>]
  IN
  IF ~vp.hasSubmission
    THEN [none EXCEPT !.errors = <<<<"missing_submission", NoValue>>>>]
  ELSE
    LET submission == vp.presentation_submission
    IN IF submission.definition_id # pd.id
         THEN [none EXCEPT !.errors = <<<<"definition_mismatch", pd.id>>>>]
       ELSE IF ~submission.hasMap /\ Len(pd.input_descriptors) > 0
         THEN [none EXCEPT !.threw = TRUE]
       ELSE
         LET acc == EvaluateLoop(submission, vp.verifiableCredential,
                                 pd.input_descriptors, Len(pd.input_descriptors))
             allRequiredMatched ==
               \A i \in 1..Len(pd.input_descriptors) :
                 ~EveryOptional(pd.input_descriptors[i])
                   => InSeq(pd.input_descriptors[i].id, acc.matchedDescriptors)
             errors == IF allRequiredMatched THEN acc.errors
                       ELSE Append(acc.errors, <<"not_all_required", NoValue>>)
         IN [threw |-> FALSE, valid |-> errors = <<>>, errors |-> errors,
             matchedDescriptors |-> acc.matchedDescriptors]

(* ------------- services: trust resolver (sessionService.ts) ------------ *)
(* DEFAULT_CACHE_TTL: in the trust resolver one unit of the clock is half  *)
(* of the cache lifetime (30 minutes)                                      *)
CacheTTL == 2

(* the DIDs the resolver is asked about: the method of the DID, whether    *)
(* MOCK_DID_DOCUMENTS has its document, the status of its row in the trust *)
(* anchor registry ("none": no row) and the validUntil of that row.  Rows  *)
(* 1 and 2 are the rows of MOCK_TRUST_ANCHORS; rows 3 and 4 are anchors of *)
(* the two other values of TrustAnchor.status; row 5 is in no table        *)
DidTable ==
  << [method |-> "ebsi", mockDocument |-> TRUE,  status |-> "active",    validUntil |-> 1],
     [method |-> "web",  mockDocument |-> FALSE, status |-> "active",    validUntil |-> NoTime],
     [method |-> "key",  mockDocument |-> FALSE, status |-> "suspended", validUntil |-> NoTime],
     [method |-> "key",  mockDocument |-> FALSE, status |-> "revoked",   validUntil |-> NoTime],
     [method |-> "key",  mockDocument |-> FALSE, status |-> "none",      validUntil |-> NoTime] >>

Dids == 1..Len(DidTable)
NoDid == 0

(* TrustResolverConfig: the default of resolveDID and isTrustedIssuer, the *)
(* EBSI registry instead of the mock tables, and neither                   *)
DefaultConfig == [enableMockTrustAnchors |-> TRUE, enableEBSI |-> FALSE]

Configs ==
  {DefaultConfig,
   [enableMockTrustAnchors |-> FALSE, enableEBSI |-> TRUE],
   [enableMockTrustAnchors |-> FALSE, enableEBSI |-> FALSE]}

(* what the EBSI registry and the did:web hosts answer for a DID: nothing  *)
(* (an HTTP error or a network error), a 200 whose body holds no document  *)
(* (JSON null), a document without a key, or a document with a             *)
(* publicKeyJwk                                                            *)
Upstreams ==
  {[d \in Dids |-> IF d = 1 THEN e ELSE IF d = 2 THEN w ELSE "none"] :
     e \in {"none", "key"}, w \in {"none", "empty", "nokey", "key"}}

(* result.success && result.document *)
answersDocument(up, did) == up[did] \in {"nokey", "key"}

(* the upstream answers with a host that accepts the request and never     *)
(* answers it                                                              *)
SilentUpstreams ==
  {[d \in Dids |-> IF d = 1 THEN e ELSE IF d = 2 THEN w ELSE "none"] :
     e \in {"key", "silent"}, w \in {"none", "key", "silent"}}

(* the two Maps: an entry is a value with the time it was stored at *)
NoDocument == [cached |-> FALSE, timestamp |-> NoTime, hasKey |-> FALSE]
NoAnchor == [cached |-> FALSE, timestamp |-> NoTime]
EmptyDidCache == [d \in Dids |-> NoDocument]
EmptyTrustAnchorCache == [d \in Dids |-> NoAnchor]

(* the test of the cache with the entry still served at its TTL *)
cacheHit_AtTTL(entry, t) == entry.cached /\ t - entry.timestamp <= CacheTTL

(* cached && now - cached.timestamp < ttl *)
cacheHit(entry, t) == entry.cached /\ t - entry.timestamp < CacheTTL

(* the fetch whose failure is stored as well *)
resolveUpstream_StoresFailure(did, config, cache, t, up) ==
  LET method == DidTable[did].method
      ebsi == config.enableEBSI /\ method = "ebsi"
      web == method = "web"
      stored == [cache EXCEPT ![did] = [cached |-> TRUE, timestamp |-> t,
                                        hasKey |-> up[did] = "key"]]
  IN IF ebsi /\ answersDocument(up, did)
       THEN [success |-> TRUE, hasKey |-> up[did] = "key", cache |-> stored,
             source |-> "ebsi", queried |-> <<"ebsi">>]
       ELSE IF web /\ answersDocument(up, did)
         THEN [success |-> TRUE, hasKey |-> up[did] = "key", cache |-> stored,
               source |-> "web", queried |-> <<"web">>]
         ELSE [success |-> FALSE, hasKey |-> FALSE, cache |-> stored,
               source |-> "none",
               queried |-> (IF ebsi THEN <<"ebsi">> ELSE <<>>)
                             \o (IF web THEN <<"web">> ELSE <<>>)]

(* resolveEBSIDID and resolveWebDID: the fetch and what follows it in      *)
(* resolveDID; queried are the upstream services asked, in order           *)
resolveUpstream(did, config, cache, t, up) ==
  LET method == DidTable[did].method
      ebsi == config.enableEBSI /\ method = "ebsi"
      web == method = "web"
      stored == [cache EXCEPT ![did] = [cached |-> TRUE, timestamp |-> t,
                                        hasKey |-> up[did] = "key"]]
  IN IF ebsi /\ answersDocument(up, did)
       THEN [success |-> TRUE, hasKey |-> up[did] = "key", cache |-> stored,
             source |-> "ebsi", queried |-> <<"ebsi">>]
       ELSE IF web /\ answersDocument(up, did)
         THEN [success |-> TRUE, hasKey |-> up[did] = "key", cache |-> stored,
               source |-> "web", queried |-> <<"web">>]
         ELSE [success |-> FALSE, hasKey |-> FALSE, cache |-> cache,
               source |-> "none",
               queried |-> (IF ebsi THEN <<"ebsi">> ELSE <<>>)
                             \o (IF web THEN <<"web">> ELSE <<>>)]

(* resolveDID reaches one of its fetches *)
resolveFetches(did, config, cache, t) ==
  /\ ~cacheHit(cache[did], t)
  /\ ~(config.enableMockTrustAnchors /\ DidTable[did].mockDocument)
  /\ (config.enableEBSI /\ DidTable[did].method = "ebsi") \/ DidTable[did].method = "web"

(* resolveDID: the cache, then the mock documents, then the upstream       *)
(* services; only a success is stored                                      *)
resolveDID(did, config, cache, t, up) ==
  IF cacheHit(cache[did], t)
    THEN [success |-> TRUE, hasKey |-> cache[did].hasKey, cache |-> cache,
          source |-> "cache", queried |-> <<>>]
    ELSE IF config.enableMockTrustAnchors /\ DidTable[did].mockDocument
      THEN [success |-> TRUE, hasKey |-> TRUE,
            cache |-> [cache EXCEPT ![did] = [cached |-> TRUE, timestamp |-> t,
                                              hasKey |-> TRUE]],
            source |-> "mock", queried |-> <<"mock">>]
      ELSE LET out == resolveUpstream(did, config, cache, t, up)
           IN [out EXCEPT !.queried =
                 (IF config.enableMockTrustAnchors THEN <<"mock">> ELSE <<>>) \o @]

(* the test of the cached anchor without its validUntil part *)
anchorIsValid_StatusOnly(did, t) == DidTable[did].status = "active"

(* anchor.status === 'active' && (!anchor.validUntil ||                    *)
(* anchor.validUntil > new Date())                                         *)
anchorIsValid(did, t) ==
  /\ DidTable[did].status = "active"
  /\ DidTable[did].validUntil = NoTime \/ DidTable[did].validUntil > t

(* the lookup that trusts an issuer it finds no anchor for *)
isTrustedIssuer_TrustUnknown(did, config, cache, t) ==
  IF cacheHit(cache[did], t)
    THEN [trusted |-> anchorIsValid(did, t), cache |-> cache, source |-> "cache"]
    ELSE IF config.enableMockTrustAnchors /\ DidTable[did].status # "none"
      THEN [trusted |-> anchorIsValid(did, t),
            cache |-> [cache EXCEPT ![did] = [cached |-> TRUE, timestamp |-> t]],
            source |-> "registry"]
      ELSE [trusted |-> TRUE, cache |-> cache, source |-> "none"]

(* isTrustedIssuer: the cache, then the registry; a registry row is stored *)
(* whatever its status                                                     *)
isTrustedIssuer(did, config, cache, t) ==
  IF cacheHit(cache[did], t)
    THEN [trusted |-> anchorIsValid(did, t), cache |-> cache, source |-> "cache"]
    ELSE IF config.enableMockTrustAnchors /\ DidTable[did].status # "none"
      THEN [trusted |-> anchorIsValid(did, t),
            cache |-> [cache EXCEPT ![did] = [cached |-> TRUE, timestamp |-> t]],
            source |-> "registry"]
      ELSE [trusted |-> FALSE, cache |-> cache, source |-> "none"]

(* the list of every anchor of the registry, whatever its status *)
getTrustAnchors_Unfiltered(config) ==
  IF config.enableMockTrustAnchors
    THEN {d \in Dids : DidTable[d].status # "none"}
    ELSE {}

(* getTrustAnchors: MOCK_TRUST_ANCHORS.filter(a => a.status === 'active'), *)
(* the empty list without the mock anchors                                 *)
getTrustAnchors(config) ==
  IF config.enableMockTrustAnchors
    THEN {d \in Dids : DidTable[d].status # "none" /\ DidTable[d].status = "active"}
    ELSE {}

(* GET /.well-known/openid4vp-configuration: the metadata, its trust       *)
(* anchors those of getTrustAnchors under the configuration of the route   *)
NoMetadata ==
  [generated |-> FALSE, response_types_supported |-> {}, response_modes_supported |-> {},
   trust_anchors |-> {}]

openid4vpConfiguration ==
  [generated |-> TRUE, response_types_supported |-> {"vp_token"},
   response_modes_supported |-> {"direct_post", "direct_post.jwt"},
   trust_anchors |-> getTrustAnchors([enableMockTrustAnchors |-> TRUE,
                                      enableEBSI |-> FALSE])]

(* ---------------- services: credential validator (validateVC) ---------- *)
(* VCValidationOptions with its defaults filled in *)
DefaultOptions ==
  [checkTrust |-> TRUE, checkExpiration |-> TRUE, trustConfig |-> DefaultConfig]

(* a VCValidationResult: hasTrusted = FALSE is a result without a trusted  *)
(* member                                                                  *)
FailedResult(error) ==
  [valid |-> FALSE, errors |-> <<error>>, warnings |-> <<>>,
   hasTrusted |-> FALSE, trusted |-> FALSE]

NoResult == FailedResult("none")
NoResolution == [success |-> FALSE, hasKey |-> FALSE]

(* step 1: the JWT has three parts, its payload parses and names an issuer *)
vcDecodes(vc) == CredentialTable[vc].wellFormed /\ CredentialTable[vc].issuer # NoDid

(* the result that treats every warning as an error *)
validateResolved_WarningsFail(vc, options, resolution, cache, t) ==
  LET c == CredentialTable[vc]
      trustCheck == isTrustedIssuer(c.issuer, options.trustConfig, cache, t)
      trusted == options.checkTrust /\ trustCheck.trusted
  IN [result |-> [valid |-> resolution.success /\ resolution.hasKey /\ c.sigOk
                              /\ c.context /\ c.type /\ c.subject
                              /\ c.typeHasVC /\ trusted,
                  errors |-> <<>>, warnings |-> <<>>,
                  hasTrusted |-> TRUE, trusted |-> trusted],
      trustAnchorCache |-> cache]

(* steps 2 to 8 of validateVC, from the answer of resolveDID on *)
validateResolved(vc, options, resolution, cache, t) ==
  LET c == CredentialTable[vc]
      Failed(error) == [result |-> FailedResult(error), trustAnchorCache |-> cache]
  IN IF ~resolution.success THEN Failed("resolve_failed")
     ELSE IF ~resolution.hasKey THEN Failed("no_public_key")
     ELSE IF ~c.sigOk THEN Failed("signature_failed")
     ELSE
       LET expired == options.checkExpiration /\ c.expirationDate # NoTime
                        /\ c.expirationDate < t
           errors == (IF c.context THEN <<>> ELSE <<"missing_context">>)
                       \o (IF c.type THEN <<>> ELSE <<"missing_type">>)
                       \o (IF c.subject THEN <<>> ELSE <<"missing_credentialSubject">>)
                       \o (IF expired THEN <<"expired">> ELSE <<>>)
           trustCheck == isTrustedIssuer(c.issuer, options.trustConfig, cache, t)
           trusted == options.checkTrust /\ trustCheck.trusted
           warnings == (IF c.typeHasVC THEN <<>> ELSE <<"type_without_VerifiableCredential">>)
                         \o (IF options.checkTrust /\ ~trusted
                               THEN <<"issuer_not_trusted">> ELSE <<>>)
       IN [result |-> [valid |-> errors = <<>>, errors |-> errors,
                       warnings |-> warnings, hasTrusted |-> TRUE,
                       trusted |-> trusted],
           trustAnchorCache |-> IF options.checkTrust THEN trustCheck.cache ELSE cache]

(* validateVC run from its call to its return *)
validateVC(vc, options, dids, anchors, t, up) ==
  IF ~vcDecodes(vc)
    THEN [result |-> FailedResult("decode_failed"), didCache |-> dids,
          trustAnchorCache |-> anchors]
    ELSE LET resolution == resolveDID(CredentialTable[vc].issuer, options.trustConfig,
                                      dids, t, up)
             out == validateResolved(vc, options, resolution, anchors, t)
         IN [result |-> out.result, didCache |-> resolution.cache,
             trustAnchorCache |-> out.trustAnchorCache]

(* the results of the credentials validated one after the other *)
RECURSIVE ValidateEach(_, _, _, _, _, _)
ValidateEach(vcs, options, dids, anchors, t, up) ==
  IF vcs = <<>> THEN <<>>
  ELSE LET out == validateVC(Head(vcs), options, dids, anchors, t, up)
       IN <<out.result>> \o ValidateEach(Tail(vcs), options, out.didCache,
                                         out.trustAnchorCache, t, up)

(* allTrusted over the results that are valid only *)
Aggregate_TrustedOfValid(results) ==
  [valid |-> \A i \in 1..Len(results) : results[i].valid,
   results |-> results,
   allTrusted |-> \A i \in 1..Len(results) :
                    results[i].valid => results[i].hasTrusted /\ results[i].trusted]

(* results.every((r) => r.valid), results.every((r) => r.trusted === true) *)
Aggregate(results) ==
  [valid |-> \A i \in 1..Len(results) : results[i].valid,
   results |-> results,
   allTrusted |-> \A i \in 1..Len(results) :
                    results[i].hasTrusted /\ results[i].trusted]

(* validateVCBatch: every credential validated, results aggregated *)
validateVCBatch(vcs, options, dids, anchors, t, up) ==
  Aggregate(ValidateEach(vcs, options, dids, anchors, t, up))

(* --------------- services: SD-JWT validator (validateSDJWT) ------------ *)
(* a disclosed claim: its key is name followed by suffix, "age_over_" with *)
(* the digits of a threshold, or a name on its own                         *)
NoBirth == [year |-> 0, later |-> FALSE]
BooleanValue(b) == [type |-> "boolean", bool |-> b, birth |-> NoBirth]
DateValue(birth) == [type |-> "string", bool |-> FALSE, birth |-> birth]
TextValue == [type |-> "string", bool |-> FALSE, birth |-> NoBirth]

(* value === true *)
IsTrue(value) == value.type = "boolean" /\ value.bool

AgeOverClaim(digits, b) ==
  [name |-> "age_over_", suffix |-> digits, value |-> BooleanValue(b)]
BirthdateClaim(birth) == [name |-> "birthdate", suffix |-> <<>>, value |-> DateValue(birth)]
OtherClaim == [name |-> "given_name", suffix |-> <<>>, value |-> TextValue]

(* the day new Date() returns in calculateAge, and birthdates: later is a  *)
(* birthday that is still to come in the year of today                     *)
Today == [year |-> 2026]
Births == {[year |-> 2008, later |-> FALSE], [year |-> 2008, later |-> TRUE]}

Thresholds == {<<"1", "6">>, <<"1", "8">>, <<"2", "1">>}

DisclosedClaims ==
  {AgeOverClaim(d, v) : d \in Thresholds, v \in BOOLEAN}
    \cup {BirthdateClaim(b) : b \in Births}
    \cup {OtherClaim}

ClaimKey(c) == <<c.name, c.suffix>>

(* the disclosures of a token, in the order of Object.keys: no key twice *)
DisclosureLists ==
  {ds \in UNION {[1..n -> DisclosedClaims] : n \in 0..MaxDisclosures} :
     \A i, j \in 1..Len(ds) : i # j => ClaimKey(ds[i]) # ClaimKey(ds[j])}

(* an SD-JWT as validateSDJWT sees it: whether sdJwtDecode decodes it, the *)
(* issuer of its payload, whether jose verifies the issuer JWT, the exp of *)
(* the payload and the disclosed claims                                    *)
SdJwtShapes ==
  {[decodes |-> TRUE,  issuer |-> 1, sigOk |-> TRUE,  exp |-> NoTime],
   [decodes |-> TRUE,  issuer |-> 1, sigOk |-> TRUE,  exp |-> 1],
   [decodes |-> TRUE,  issuer |-> 1, sigOk |-> FALSE, exp |-> NoTime],
   [decodes |-> TRUE,  issuer |-> 5, sigOk |-> TRUE,  exp |-> NoTime],
   [decodes |-> FALSE, issuer |-> NoDid, sigOk |-> FALSE, exp |-> NoTime]}

SdJwt(shape, ds) ==
  [decodes |-> shape.decodes, issuer |-> shape.issuer, sigOk |-> shape.sigOk,
   exp |-> shape.exp, disclosures |-> ds]

SdJwtTokens == {SdJwt(shape, ds) : shape \in SdJwtShapes, ds \in DisclosureLists}

(* SDJWTValidationOptions with the defaults filled in;                     *)
(* requireMinimumDisclosures 0 is the option left out                      *)
SdJwtOptions(checkTrust, checkExpiration, minimum) ==
  [checkTrust |-> checkTrust, checkExpiration |-> checkExpiration,
   trustConfig |-> DefaultConfig, requireMinimumDisclosures |-> minimum]

(* an SDJWTValidationResult; hasClaims = FALSE is a result without         *)
(* disclosedClaims                                                         *)
FailedSdJwt(error) ==
  [valid |-> FALSE, errors |-> <<error>>, warnings |-> <<>>, hasTrusted |-> FALSE,
   trusted |-> FALSE, hasClaims |-> FALSE, disclosedClaims |-> <<>>,
   disclosureCount |-> 0]

(* validateSDJWT: steps 1 to 9; too few disclosures is a warning *)
validateSDJWT(token, opts, dids, anchors, t, up) ==
  IF ~token.decodes THEN
    [result |-> FailedSdJwt("decode_failed"), didCache |-> dids, trustAnchorCache |-> anchors]
  ELSE IF token.issuer = NoDid THEN
    [result |-> FailedSdJwt("missing_issuer"), didCache |-> dids, trustAnchorCache |-> anchors]
  ELSE
    LET resolution == resolveDID(token.issuer, opts.trustConfig, dids, t, up)
        Failed(error) == [result |-> FailedSdJwt(error), didCache |-> resolution.cache,
                          trustAnchorCache |-> anchors]
    IN IF ~resolution.success THEN Failed("resolve_failed")
       ELSE IF ~resolution.hasKey THEN Failed("no_public_key")
       ELSE IF ~token.sigOk THEN Failed("signature_failed")
       ELSE
         LET disclosureCount == Len(token.disclosures)
             tooFew == opts.requireMinimumDisclosures # 0
                         /\ disclosureCount < opts.requireMinimumDisclosures
             expired == opts.checkExpiration /\ token.exp # NoTime /\ token.exp < t
             errors == IF expired THEN <<"expired">> ELSE <<>>
             trustCheck == isTrustedIssuer(token.issuer, opts.trustConfig, anchors, t)
             trusted == opts.checkTrust /\ trustCheck.trusted
             warnings == (IF tooFew THEN <<"too_few_disclosures">> ELSE <<>>)
                           \o (IF opts.checkTrust /\ ~trusted
                                 THEN <<"issuer_not_trusted">> ELSE <<>>)
         IN [result |->
               [valid |-> errors = <<>>, errors |-> errors, warnings |-> warnings,
                hasTrusted |-> errors = <<>>, trusted |-> errors = <<>> /\ trusted,
                hasClaims |-> errors = <<>>,
                disclosedClaims |-> IF errors = <<>> THEN token.disclosures ELSE <<>>,
                disclosureCount |-> disclosureCount],
             didCache |-> resolution.cache,
             trustAnchorCache |-> IF opts.checkTrust THEN trustCheck.cache ELSE anchors]

(* ----------------------- verifyAgeOver (SD-JWT) ------------------------ *)
NaN == -1

(* parseInt(key.substring(9), 10): the leading digits, NaN without one *)
parseAge(suffix) ==
  IF DigitRun(suffix, 1) = 0 THEN NaN ELSE ParseInt(suffix, 1, DigitRun(suffix, 1))

(* `${minAge}` *)
DigitChar(n) == CHOOSE c \in Digits : DigitVal(c) = n
NumberToString(n) ==
  IF n < 10 THEN <<DigitChar(n)>> ELSE <<DigitChar(n \div 10), DigitChar(n % 10)>>

(* calculateAge: the difference of the years, less one before the birthday *)
calculateAge(birth) == Today.year - birth.year - (IF birth.later THEN 1 ELSE 0)

(* disclosedClaims[`age_over_${minAge}`] === true *)
HasExactClaim(claims, minAge) ==
  \E i \in 1..Len(claims) :
    /\ claims[i].name = "age_over_"
    /\ claims[i].suffix = NumberToString(minAge)
    /\ IsTrue(claims[i].value)

(* the test of the loop without the test of the value *)
IsHigherClaim_AnyValue(c, minAge) ==
  /\ c.name = "age_over_"
  /\ parseAge(c.suffix) # NaN
  /\ parseAge(c.suffix) >= minAge

(* the test of the loop over Object.keys(disclosedClaims) *)
IsHigherClaim(c, minAge) ==
  /\ c.name = "age_over_"
  /\ parseAge(c.suffix) # NaN
  /\ parseAge(c.suffix) >= minAge
  /\ IsTrue(c.value)

(* disclosedClaims.birth_date || disclosedClaims.birthdate *)
UsesBirthdate(claims) == \E i \in 1..Len(claims) : claims[i].name = "birthdate"

(* the first key of the loop that returns, 0: none *)
FirstHigherClaim(claims, minAge) ==
  IF \E i \in 1..Len(claims) : IsHigherClaim(claims[i], minAge)
    THEN CHOOSE i \in 1..Len(claims) :
           /\ IsHigherClaim(claims[i], minAge)
           /\ \A j \in 1..(i - 1) : ~IsHigherClaim(claims[j], minAge)
    ELSE 0

NoAge == [verified |-> FALSE, hasAgeOver |-> FALSE, ageOver |-> 0, via |-> "none"]

(* verifyAgeOver: the exact claim, a higher claim, then the birthdate *)
verifyAgeOver(token, minAge, dids, anchors, t, up) ==
  LET out == validateSDJWT(token, SdJwtOptions(TRUE, TRUE, 0), dids, anchors, t, up)
      claims == out.result.disclosedClaims
      higher == FirstHigherClaim(claims, minAge)
      birth == (CHOOSE c \in {claims[i] : i \in 1..Len(claims)} : c.name = "birthdate").value.birth
      age ==
        IF ~out.result.valid THEN [NoAge EXCEPT !.via = "invalid"]
        ELSE IF HasExactClaim(claims, minAge)
          THEN [verified |-> TRUE, hasAgeOver |-> TRUE, ageOver |-> minAge, via |-> "exact"]
        ELSE IF higher # 0
          THEN [verified |-> TRUE, hasAgeOver |-> TRUE,
                ageOver |-> parseAge(claims[higher].suffix), via |-> "higher"]
        ELSE IF UsesBirthdate(claims)
          THEN IF calculateAge(birth) >= minAge
                 THEN [verified |-> TRUE, hasAgeOver |-> TRUE,
                       ageOver |-> calculateAge(birth), via |-> "birthdate"]
                 ELSE [NoAge EXCEPT !.via = "birthdate"]
        ELSE NoAge
  IN [result |-> age, didCache |-> out.didCache, trustAnchorCache |-> out.trustAnchorCache]

MinAges == {18, 21}

(* ------------------------- services/sessionService.ts ------------------ *)
NoStored == <<"null", 0>>

(* the row INSERTed by createVPSession *)
NewSession(def, redirect, t) ==
  [status |-> "pending", expires_at |-> t + ExpiresIn, presentation_definition |-> def,
   redirect_uri |-> redirect, vp_token |-> NoToken,
   presentation_submission |-> NoStored, completed_at |-> NoTime]

(* the update that puts the session back to pending *)
updateSessionStatus_Reopens(rows, sessionId, status) ==
  [rows EXCEPT ![sessionId].status = "pending"]

(* updateSessionStatus: UPDATE vp_sessions SET status = $1 WHERE id = $2 *)
updateSessionStatus(rows, sessionId, status) ==
  [rows EXCEPT ![sessionId].status = status]

(* the WHERE clause without its status test *)
completeMatches_AnyStatus(rows, sessionId) == TRUE

(* completeVPSession: UPDATE ... WHERE id = $3 AND status = 'pending' *)
completeMatches(rows, sessionId) == rows[sessionId].status = "pending"

completeVPSession(rows, sessionId, vpToken, presentationSubmission, t) ==
  IF completeMatches(rows, sessionId)
    THEN [rows EXCEPT ![sessionId].vp_token = vpToken,
                      ![sessionId].presentation_submission =
                         JSONStringify(presentationSubmission),
                      ![sessionId].status = "completed",
                      ![sessionId].completed_at = t]
    ELSE rows

(* a SELECT without its WHERE clause *)
selectByState_FirstRow(rows, state) == IF Len(rows) > 0 THEN 1 ELSE 0

(* getVPSessionByState, the SELECT: the id of the row with that state, 0 if none *)
selectByState(rows, state) == IF state \in 1..Len(rows) THEN state ELSE 0

(* the expiry test with >= for > *)
isExpiredOnRead_AtExpiry(session, t) ==
  session.status = "pending" /\ t >= session.expires_at

(* getVPSessionByState, the expiry test on the row read *)
isExpiredOnRead(session, t) == session.status = "pending" /\ t > session.expires_at

(* ---------------------------- routes/directPost.ts --------------------- *)
ErrorResponse(status, error, description) ==
  [status |-> status, error |-> error, description |-> description,
   keys |-> {"error", "error_description"}]

SuccessResponse(redirect) ==
  [status |-> 200, error |-> "none", description |-> "success",
   keys |-> IF redirect THEN {"redirect_uri"} ELSE {"status", "message"}]

NoResponse == [status |-> 0, error |-> "none", description |-> "none", keys |-> {}]

NoLoc == [session |-> 0, vp_token |-> NoToken, submissionData |-> NoSubmission]

sessionNotPending_OnlyCompleted(session) == session.status = "completed"

(* line 64: session.status !== 'pending' *)
sessionNotPending(session) == session.status # "pending"

(* `Session is ${session.status}, expected pending` *)
NotPendingResponse(status) ==
  ErrorResponse(400, "invalid_request",
                CASE status = "completed" -> "session_is_completed"
                  [] status = "failed" -> "session_is_failed"
                  [] status = "expired" -> "session_is_expired"
                  [] OTHER -> "session_is_pending")

(* lines 72-158: the validation steps in order; the first failing one decides *)
Validate(vp_token, body, pd) ==
  LET decoded == decodeJWT(vp_token)
      vpPayload == decoded.payload
      parsed == IF body.kind = "string" THEN JSONParse(body.text)
                ELSE IF body.kind = "object" THEN body.value
                ELSE NoSubmission
      submissionData == IF parsed = NoSubmission THEN vpPayload.presentation_submission
                        ELSE parsed
      evaluation == evaluatePresentationSubmission(Presentation(vpPayload),
                                                   DefinitionTable[pd])
      fail(error, description) ==
        [kind |-> "fail", response |-> ErrorResponse(400, error, description),
         submissionData |-> NoSubmission, matchedDescriptors |-> <<>>]
  IN
  IF ~decoded.valid THEN fail("invalid_vp_token", "decode_failed")
  ELSE IF body.kind = "string" /\ ~JSONParses(body.text)
    THEN fail("invalid_request", "invalid_submission_json")
  ELSE IF submissionData = NoSubmission
    THEN fail("invalid_request", "missing_submission")
  ELSE IF ~validatePresentationSubmission(SubmissionTable[submissionData]).valid
    THEN fail("invalid_presentation_submission", "invalid_structure")
  ELSE IF evaluation.threw
    THEN [kind |-> "throw",
          response |-> ErrorResponse(500, "server_error", "process_failed"),
          submissionData |-> NoSubmission, matchedDescriptors |-> <<>>]
  ELSE IF ~evaluation.valid THEN fail("invalid_presentation", "no_match")
  ELSE [kind |-> "ok", response |-> NoResponse, submissionData |-> submissionData,
        matchedDescriptors |-> evaluation.matchedDescriptors]

(* a response sent before any write *)
Answer(response) ==
  [pc |-> "idle", loc |-> NoLoc, response |-> response, matchedDescriptors |-> <<>>]

(* POST /direct_post up to its first write: parameter checks, the SELECT of *)
(* getVPSessionByState, the expiry test, the pending test and validation.   *)
(* The result is the response sent at once (pc idle), or the write to await *)
(* (pc), the local variables it needs (loc) and the response that follows   *)
(* it; the response after a completion depends on the write's result.       *)
directPost(vp_token, body, state) ==
  IF vp_token = NoToken
    THEN Answer(ErrorResponse(400, "invalid_request", "missing_vp_token"))
  ELSE IF state = NoState
    THEN Answer(ErrorResponse(400, "invalid_request", "missing_state"))
  ELSE IF selectByState(sessions, state) = 0
    THEN Answer(ErrorResponse(400, "invalid_request", "invalid_state"))
  ELSE
    LET id == selectByState(sessions, state)
        session == sessions[id]
        v == Validate(vp_token, body, session.presentation_definition)
    IN IF isExpiredOnRead(session, now)
         THEN [pc |-> "expire", loc |-> [NoLoc EXCEPT !.session = id],
               response |-> NotPendingResponse("expired"),
               matchedDescriptors |-> <<>>]
       ELSE IF sessionNotPending(session)
         THEN Answer(NotPendingResponse(session.status))
       ELSE IF v.kind = "throw"
         THEN Answer(v.response)
       ELSE IF v.kind = "fail"
         THEN [pc |-> "fail", loc |-> [NoLoc EXCEPT !.session = id],
               response |-> v.response, matchedDescriptors |-> <<>>]
       ELSE [pc |-> "complete",
             loc |-> [session |-> id, vp_token |-> vp_token,
                      submissionData |-> v.submissionData],
             response |-> NoResponse,
             matchedDescriptors |-> v.matchedDescriptors]

(* ------------------- inputs of the presentation matcher ---------------- *)
DescriptorNames == <<"id_credential", "age_credential", "address_credential">>

PathNone == <<"$">>

(* constraints.fields of a descriptor: no fields key, an empty list, only  *)
(* optional fields, optional and required fields, only required fields     *)
FieldShapes ==
  {[hasFields |-> FALSE, fields |-> <<>>],
   [hasFields |-> TRUE, fields |-> <<>>],
   [hasFields |-> TRUE, fields |-> <<[optional |-> TRUE]>>],
   [hasFields |-> TRUE, fields |-> <<[optional |-> TRUE], [optional |-> FALSE]>>],
   [hasFields |-> TRUE, fields |-> <<[optional |-> FALSE]>>]}

(* n descriptors, descriptor i named DescriptorNames[i] *)
DescriptorsOf(n) ==
  {[i \in 1..n |-> [id |-> DescriptorNames[i], hasFields |-> f[i].hasFields,
                    fields |-> f[i].fields]] : f \in [1..n -> FieldShapes]}

(* the definitions "pd-1" of up to MaxDescriptors descriptors *)
MatcherDefinitions ==
  {[id |-> "pd-1", input_descriptors |-> ds] :
     ds \in UNION {DescriptorsOf(n) : n \in 0..MaxDescriptors}}

MatcherMappings ==
  {Mapping(id, path) : id \in {DescriptorNames[1], DescriptorNames[2]},
                       path \in {Path0, Path1, PathNone}}

(* the submissions: a descriptor_map of up to MaxMappings entries naming   *)
(* "pd-1" or "pd-2", and a submission without descriptor_map              *)
MatcherSubmissions ==
  {[id |-> "sub-1", definition_id |-> d, hasMap |-> TRUE, descriptor_map |-> m] :
     d \in {"pd-1", "pd-2"},
     m \in UNION {[1..n -> MatcherMappings] : n \in 0..MaxMappings}}
   \cup {[id |-> "sub-1", definition_id |-> "pd-1", hasMap |-> FALSE,
          descriptor_map |-> <<>>]}

(* the presentations: up to MaxCredentials credentials *)
MatcherPresentations ==
  {[hasSubmission |-> TRUE, presentation_submission |-> sub,
    verifiableCredential |-> [i \in 1..n |-> 1]] :
     sub \in MatcherSubmissions, n \in 0..MaxCredentials}
   \cup {[hasSubmission |-> FALSE, presentation_submission |-> SubmissionTable[3],
          verifiableCredential |-> <<1>>]}

NoEvaluation ==
  [threw |-> FALSE, valid |-> FALSE, errors |-> <<>>, matchedDescriptors |-> <<>>]

MatcherIdle ==
  [pd |-> DefinitionTable[1], vp |-> Presentation(VP(1, <<1>>)), done |-> FALSE,
   result |-> NoEvaluation]

(* ------------------------- the mobile-document validator --------------- *)
(* a mobile document: whether its CBOR decodes, its docType, the mandatory *)
(* data elements its mDL namespace lacks, whether it carries issuerAuth,   *)
(* whether the issuer signature of its MSO is genuine, and its MSO         *)
requiredFields ==
  {"family_name", "given_name", "birth_date", "issue_date", "expiry_date",
   "issuing_country", "document_number"}

DocTypes == {"org.iso.18013.5.1.mDL", "eu.europa.mDL.v2", "eu.europa.ec.eudi.pid.1"}

(* docType.includes('mDL') *)
IncludesMDL(docType) == docType \in {"org.iso.18013.5.1.mDL", "eu.europa.mDL.v2"}

MobileSecurityObjects ==
  {[version |-> v, digestAlgorithm |-> a, validFrom |-> f, validUntil |-> u] :
     v \in BOOLEAN, a \in BOOLEAN, f \in 0..MaxTime, u \in 0..MaxTime}

MissingFields == {{}, {"birth_date"}, {"family_name", "document_number"}}

MobileDocuments ==
  {[decodes |-> d, docType |-> t, missing |-> m, hasIssuerAuth |-> a,
    signatureGenuine |-> g, mso |-> o] :
     d \in BOOLEAN, t \in DocTypes, m \in MissingFields, a \in BOOLEAN,
     g \in BOOLEAN, o \in {x \in MobileSecurityObjects : x.validFrom <= x.validUntil}}

NoMdoc ==
  [decodes |-> FALSE, docType |-> "eu.europa.ec.eudi.pid.1", missing |-> {},
   hasIssuerAuth |-> FALSE, signatureGenuine |-> FALSE,
   mso |-> [version |-> FALSE, digestAlgorithm |-> FALSE, validFrom |-> 0, validUntil |-> 0]]

(* decodeMobileDocument: the CBOR decodes or the call fails *)
decodeMobileDocument(doc) == [success |-> doc.decodes]

(* the result of validateMDL: valid, the license or the errors, and the    *)
(* checks the call made; the result type has no warnings                   *)
NoMdlResult == [valid |-> FALSE, license |-> FALSE, errors |-> {}, checks |-> {}, warnings |-> {}]

(* validateMDL: the decoding, the docType and the seven mandatory data     *)
(* elements; issuerAuth is never read and verifyMSO never called           *)
validateMDL(doc) ==
  IF ~decodeMobileDocument(doc).success
    THEN [valid |-> FALSE, license |-> FALSE, errors |-> {"decode_failed"},
          checks |-> {"decode"}, warnings |-> {}]
    ELSE LET errors ==
               (IF doc.docType # "org.iso.18013.5.1.mDL" /\ ~IncludesMDL(doc.docType)
                  THEN {"docType"} ELSE {})
               \cup {f \in requiredFields : f \in doc.missing}
         IN [valid |-> errors = {}, license |-> errors = {}, errors |-> errors,
             checks |-> {"decode", "docType", "requiredFields"}, warnings |-> {}]

NoMsoResult == [valid |-> FALSE, error |-> "none", checks |-> {}, warnings |-> {}]

(* verifyMSO: the structure and the validity period; the signature check   *)
(* is a TODO, the warning goes to the logger and the result is valid: true *)
verifyMSO(mso, t) ==
  IF ~mso.version \/ ~mso.digestAlgorithm
    THEN [valid |-> FALSE, error |-> "Invalid MSO structure", checks |-> {"structure"},
          warnings |-> {}]
    ELSE IF mso.validFrom > t
      THEN [valid |-> FALSE, error |-> "MSO not yet valid",
            checks |-> {"structure", "validity"}, warnings |-> {}]
      ELSE IF mso.validUntil < t
        THEN [valid |-> FALSE, error |-> "MSO expired",
              checks |-> {"structure", "validity"}, warnings |-> {}]
        ELSE [valid |-> TRUE, error |-> "none", checks |-> {"structure", "validity"},
              warnings |-> {}]

(* ------------------------------- the audit log ------------------------- *)
(* the three-year retention of cleanupExpiredAuditLogs(3) in clock units   *)
Retention == 1

NoSession == 0

(* the events the service logs: the two GDPR events of the wallet routes,  *)
(* which name no resource, with the timestamp left out or given            *)
EventTypes == {"gdpr_data_export", "gdpr_data_deletion"}

AuditEvents ==
  {[eventType |-> e, resource |-> NoSession, result |-> "success", timestamp |-> ts] :
     e \in EventTypes, ts \in {NoTime, 0}}

(* a hash is a sequence of numbers, the empty one standing for NULL        *)
NoHash == <<>>

GenesisHash == <<0>>

(* the serialized content of a row *)
serialize(row) ==
  CASE row.eventType = "gdpr_data_export" -> 1
    [] row.eventType = "gdpr_data_deletion" -> 2
    [] OTHER -> 3

(* SHA-256 over the content and previous_hash, as the column comment of    *)
(* migration 005 describes it: injective on what it is given               *)
H(content, previous_hash) == <<content>> \o previous_hash

(* the row the INSERT of logAuditEvent stores: the seven columns it names, *)
(* previous_hash and current_hash left NULL; touched tells whether the row *)
(* was changed in storage after its insert and is no column                *)
AuditRow(event, t) ==
  [eventType |-> event.eventType, resource |-> event.resource, result |-> event.result,
   timestamp |-> IF event.timestamp = NoTime THEN t ELSE event.timestamp,
   previous_hash |-> NoHash, current_hash |-> NoHash, touched |-> FALSE]

NoAppend ==
  [called |-> FALSE, dbOk |-> FALSE, returned |-> "none", logged |-> FALSE, added |-> 0,
   response |-> "none"]

(* logAuditEvent with its catch rethrowing *)
logAuditEvent_Rethrow(log, event, t, dbOk) ==
  IF dbOk
    THEN [returned |-> "true", logged |-> FALSE, log |-> Append(log, AuditRow(event, t))]
    ELSE [returned |-> "threw", logged |-> TRUE, log |-> log]

(* logAuditEvent: one INSERT; when it fails the catch logs the error and   *)
(* returns false                                                           *)
logAuditEvent(log, event, t, dbOk) ==
  IF dbOk
    THEN [returned |-> "true", logged |-> FALSE, log |-> Append(log, AuditRow(event, t))]
    ELSE [returned |-> "false", logged |-> TRUE, log |-> log]

(* the GDPR handlers around their await logAuditEvent(...): the result is  *)
(* not read and the success response follows; a throw would reach the      *)
(* handler's catch and its 500                                             *)
auditedResponse(returned) ==
  IF returned = "threw" THEN "export_failed" ELSE "success"

(* cleanupExpiredAuditLogs(retentionYears): DELETE FROM audit_logs WHERE   *)
(* timestamp < CURRENT_TIMESTAMP - INTERVAL; a failure deletes nothing     *)
cleanupExpiredAuditLogs(log, t, dbOk) ==
  IF dbOk THEN SelectSeq(log, LAMBDA row : ~(row.timestamp < t - Retention))
  ELSE log

(* verifyChain(range): recomputes the hash of every entry of the range and *)
(* confirms that it links to its predecessor, the first one to the genesis *)
verifyChain(entries) ==
  \A i \in 1..Len(entries) :
    /\ entries[i].current_hash = H(serialize(entries[i]), entries[i].previous_hash)
    /\ entries[i].previous_hash =
         IF i = 1 THEN GenesisHash ELSE entries[i - 1].current_hash

(* ------------------------------ the rate limiter ----------------------- *)
(* RATE_LIMITS of the three mounts of index.ts, one unit of the clock      *)
(* being the window of /health and /authorize lasting two of them          *)
RATE_LIMITS ==
  [authorize |-> [windowMs |-> 2, maxRequests |-> 2],
   directPost |-> [windowMs |-> 2, maxRequests |-> 2],
   health |-> [windowMs |-> 1, maxRequests |-> 3]]

Endpoints == DOMAIN RATE_LIMITS

Clients == 1..MaxClients

(* req.path in a middleware mounted with app.use(mount, ...) is the path   *)
(* below the mount: "/" for a request to the mount itself                  *)
RequestPath(endpoint) == "/"

(* `${clientIP}:${req.path}` *)
RateLimitKey(client, endpoint) == <<client, RequestPath(endpoint)>>

RateLimitKeys == {RateLimitKey(c, e) : c \in Clients, e \in Endpoints}

NoRecord == [present |-> FALSE, count |-> 0, firstRequest |-> NoTime, lastRequest |-> NoTime]

(* what a limiter did with a request *)
NoLimiterAnswer ==
  [client |-> 0, endpoint |-> "none", passed |-> FALSE, status |-> 0,
   error |-> "none", retry_after |-> NoTime, elapsed |-> FALSE]

(* the middleware of createRateLimiter(config): a new window for a key     *)
(* without a record or with one older than windowMs, else the count and    *)
(* the 429 above maxRequests                                               *)
createRateLimiter(config, store, client, endpoint, t) ==
  LET key == RateLimitKey(client, endpoint)
      record == store[key]
  IN IF ~record.present \/ t - record.firstRequest > config.windowMs
       THEN [store |-> [store EXCEPT ![key] = [present |-> TRUE, count |-> 1,
                                                firstRequest |-> t, lastRequest |-> t]],
             passed |-> TRUE, status |-> 200, error |-> "none", retry_after |-> NoTime]
       ELSE LET count == record.count + 1
                stored == [store EXCEPT ![key].count = count, ![key].lastRequest = t]
            IN IF count > config.maxRequests
                 THEN [store |-> stored, passed |-> FALSE, status |-> 429,
                       error |-> "too_many_requests",
                       retry_after |-> record.firstRequest + config.windowMs - t]
                 ELSE [store |-> stored, passed |-> TRUE, status |-> 200,
                       error |-> "none", retry_after |-> NoTime]

(* Math.max of the windowMs of RATE_LIMITS *)
maxAge ==
  CHOOSE w \in {RATE_LIMITS[e].windowMs : e \in Endpoints} :
    \A e \in Endpoints : RATE_LIMITS[e].windowMs <= w

(* cleanupRateLimitStore: the records not touched for longer than maxAge   *)
(* are deleted                                                             *)
cleanupRateLimitStore(store, t) ==
  [k \in DOMAIN store |->
     IF store[k].present /\ t - store[k].lastRequest > maxAge THEN NoRecord ELSE store[k]]

(* the window of a client at an endpoint: it starts with the first request *)
(* passed on to the handler and lasts the windowMs of the endpoint; passed *)
(* counts the requests passed on within it                                 *)
NoWindow == [start |-> NoTime, passed |-> 0]

WindowElapsed(window, endpoint, t) ==
  window.start # NoTime /\ t - window.start > RATE_LIMITS[endpoint].windowMs

(* the windows after a request was passed on or answered by the limiter *)
CountPassed(windows, client, endpoint, passed, t) ==
  IF ~passed THEN windows
  ELSE IF windows[<<client, endpoint>>].start = NoTime
            \/ WindowElapsed(windows[<<client, endpoint>>], endpoint, t)
    THEN [windows EXCEPT ![<<client, endpoint>>] = [start |-> t, passed |-> 1]]
    ELSE [windows EXCEPT ![<<client, endpoint>>].passed = @ + 1]

RateLimitIdle ==
  [store |-> [k \in RateLimitKeys |-> NoRecord],
   windows |-> [w \in Clients \X Endpoints |-> NoWindow],
   last |-> NoLimiterAnswer]

(* ------------------------------- the state ----------------------------- *)
(* now: the clock; sessions: the rows of vp_sessions, row i has id i;      *)
(* inflight: the direct_post handlers awaiting a write, each with its      *)
(* position pc and its local variables loc, at most NumProcs at a time;    *)
(* completions: how many completeVPSession calls updated a row, per session *)
NoSessions ==
  /\ now = 0
  /\ sessions = <<>>
  /\ inflight = EmptyBag
  /\ completions = <<>>

(* didCache, trustAnchorCache: the two Maps of the trust resolver;          *)
(* upstream: what the EBSI registry and the did:web hosts answer;          *)
(* batch: the validateVC calls of one validateVCBatch, each with its       *)
(* position and the answer of resolveDID it holds                          *)
BatchIdle == [options |-> DefaultOptions, procs |-> <<>>]

ResolverIdle ==
  /\ didCache = EmptyDidCache
  /\ trustAnchorCache = EmptyTrustAnchorCache
  /\ upstream = [d \in Dids |-> "none"]

(* mdoc: a mobile document and the results of validateMDL and verifyMSO    *)
(* once they have run                                                      *)
MdocIdle ==
  [doc |-> NoMdoc, validated |-> FALSE, result |-> NoMdlResult,
   verified |-> FALSE, mso |-> NoMsoResult]

(* metadata: the last answer of GET /.well-known/openid4vp-configuration;  *)
(* rateLimit: the requestStore of the rate limiter with what the limiters  *)
(* did with the last request                                               *)
WebIdle ==
  /\ metadata = NoMetadata
  /\ rateLimit = RateLimitIdle

(* auditLog: the rows of audit_logs in the order of their ids;             *)
(* lastAppend: what the last logAuditEvent call returned                   *)
AuditIdle ==
  /\ auditLog = <<>>
  /\ lastAppend = NoAppend

(* sdjwt: an SD-JWT with the minimum-disclosure option and the minAge it   *)
(* is checked with, and the results of validateSDJWT and verifyAgeOver     *)
(* once they have run                                                      *)
SdJwtIdle ==
  [token |-> SdJwt([decodes |-> FALSE, issuer |-> NoDid, sigOk |-> FALSE, exp |-> NoTime], <<>>),
   minimum |-> 0, minAge |-> 18, validated |-> FALSE,
   validation |-> FailedSdJwt("none"), verified |-> FALSE, age |-> NoAge]

Init ==
  /\ NoSessions
  /\ matcher = MatcherIdle
  /\ ResolverIdle
  /\ batch = BatchIdle
  /\ sdjwt = SdJwtIdle
  /\ mdoc = MdocIdle
  /\ WebIdle
  /\ AuditIdle

(* the clock advances *)
Tick ==
  /\ now < MaxTime
  /\ now' = now + 1
  /\ UNCHANGED <<sessions, inflight, completions>>
  /\ UNCHANGED sessionFrame

(* GET /authorize: a valid request creates a pending session; sessions are *)
(* created while the clock can still pass their expiry                     *)
Authorize(response_type, def, redirect) ==
  /\ response_type = "vp_token"
  /\ Len(sessions) < MaxSessions
  /\ now + ExpiresIn < MaxTime
  /\ sessions' = Append(sessions, NewSession(def, redirect, now))
  /\ completions' = Append(completions, 0)
  /\ UNCHANGED <<now, inflight>>
  /\ UNCHANGED sessionFrame

Handler(out) == [pc |-> out.pc, loc |-> out.loc]

(* a handler takes a request and runs directPost on it: it has answered or *)
(* waits for its write                                                      *)
DirectPost(vp_token, body, state) ==
  LET out == directPost(vp_token, body, state)
  IN /\ BagCardinality(inflight) < NumProcs
     /\ inflight' = IF out.pc = "idle" THEN inflight
                     ELSE inflight (+) SetToBag({Handler(out)})
     /\ UNCHANGED <<now, sessions, completions>>
     /\ UNCHANGED sessionFrame

(* the handler h has sent its response *)
Done(h) == inflight' = inflight (-) SetToBag({h})

(* getVPSessionByState: the UPDATE to expired; the session returned has    *)
(* status expired and line 64 rejects the request                          *)
ExpireWrite(h) ==
  /\ h.pc = "expire"
  /\ sessions' = updateSessionStatus(sessions, h.loc.session, "expired")
  /\ Done(h)
  /\ UNCHANGED <<now, completions>>
  /\ UNCHANGED sessionFrame

(* updateSessionStatus(session.id, 'failed'), then the error response *)
FailWrite(h) ==
  /\ h.pc = "fail"
  /\ sessions' = updateSessionStatus(sessions, h.loc.session, "failed")
  /\ Done(h)
  /\ UNCHANGED <<now, completions>>
  /\ UNCHANGED sessionFrame

(* the response after completeVPSession *)
completeResponse(h) ==
  IF completeMatches(sessions, h.loc.session)
    THEN SuccessResponse(sessions[h.loc.session].redirect_uri)
    ELSE ErrorResponse(500, "server_error", "complete_failed")

(* completeVPSession and the final response *)
CompleteWrite(h) ==
  LET id == h.loc.session
  IN /\ h.pc = "complete"
     /\ sessions' = completeVPSession(sessions, id, h.loc.vp_token,
                                      h.loc.submissionData, now)
     /\ completions' = IF completeMatches(sessions, id)
                         THEN [completions EXCEPT ![id] = @ + 1]
                         ELSE completions
     /\ Done(h)
     /\ UNCHANGED now
     /\ UNCHANGED sessionFrame

Handlers == BagToSet(inflight)

Next ==
  \/ Tick
  \/ \E r \in AuthorizeRequests : Authorize(r[1], r[2], r[3])
  \/ \E r \in Requests : DirectPost(r[1], r[2], r[3])
  \/ \E h \in Handlers : ExpireWrite(h)
  \/ \E h \in Handlers : FailWrite(h)
  \/ \E h \in Handlers : CompleteWrite(h)

Spec == Init /\ [][Next]_vars

(* ----------------- the presentation matcher on its own ----------------- *)
(* matcher: a definition and a presentation, and the result of             *)
(* evaluatePresentationSubmission once it has run                          *)
MatcherInit ==
  /\ NoSessions
  /\ matcher \in {[pd |-> pd, vp |-> vp, done |-> FALSE, result |-> NoEvaluation] :
                    pd \in MatcherDefinitions, vp \in MatcherPresentations}
  /\ ResolverIdle
  /\ batch = BatchIdle
  /\ sdjwt = SdJwtIdle
  /\ mdoc = MdocIdle
  /\ WebIdle
  /\ AuditIdle

Evaluate ==
  /\ ~matcher.done
  /\ matcher' = [matcher EXCEPT
                   !.done = TRUE,
                   !.result = evaluatePresentationSubmission(matcher.vp, matcher.pd)]
  /\ UNCHANGED sessionVars
  /\ UNCHANGED <<resolverVars, batch, sdjwt, mdoc, auditVars, webVars>>

MatcherNext == Evaluate

MatcherSpec == MatcherInit /\ [][MatcherNext]_vars

(* --------------------- the trust resolver on its own ------------------- *)
(* the caches start empty with the process; resolveDID and isTrustedIssuer *)
(* are called for any DID under any configuration while the clock advances *)
ResolverInit ==
  /\ NoSessions
  /\ matcher = MatcherIdle
  /\ batch = BatchIdle
  /\ sdjwt = SdJwtIdle
  /\ mdoc = MdocIdle
  /\ WebIdle
  /\ AuditIdle
  /\ didCache = EmptyDidCache
  /\ trustAnchorCache = EmptyTrustAnchorCache
  /\ upstream \in Upstreams

Resolve(did, config) ==
  /\ didCache' = resolveDID(did, config, didCache, now, upstream).cache
  /\ UNCHANGED <<trustAnchorCache, upstream, batch, matcher, sdjwt, mdoc, auditVars, webVars>>
  /\ UNCHANGED sessionVars

Trust(did, config) ==
  /\ trustAnchorCache' = isTrustedIssuer(did, config, trustAnchorCache, now).cache
  /\ UNCHANGED <<didCache, upstream, batch, matcher, sdjwt, mdoc, auditVars, webVars>>
  /\ UNCHANGED sessionVars

ResolverNext ==
  \/ Tick
  \/ \E did \in Dids, config \in Configs : Resolve(did, config)
  \/ \E did \in Dids, config \in Configs : Trust(did, config)

ResolverSpec == ResolverInit /\ [][ResolverNext]_vars

(* --------------------- the credential validator on its own ------------- *)
(* a validateVCBatch call: Promise.all over validateVC(vc, options), the   *)
(* calls started in the order of the input and each cut at its awaits      *)
(* that touch the caches: the fetch of resolveDID and isTrustedIssuer      *)
BatchOptions ==
  {[checkTrust |-> ct, checkExpiration |-> ce, trustConfig |-> c] :
     ct \in BOOLEAN, ce \in BOOLEAN,
     c \in {DefaultConfig, [enableMockTrustAnchors |-> FALSE, enableEBSI |-> TRUE]}}

BatchInputs == UNION {[1..n -> 1..Len(CredentialTable)] : n \in 0..MaxBatch}

NewCall(vc) == [vc |-> vc, pc |-> "new", resolution |-> NoResolution, result |-> NoResult]

ValidatorInit ==
  /\ now \in {0, CacheTTL}
  /\ sessions = <<>>
  /\ inflight = EmptyBag
  /\ completions = <<>>
  /\ matcher = MatcherIdle
  /\ didCache = EmptyDidCache
  /\ trustAnchorCache = EmptyTrustAnchorCache
  /\ upstream \in {u \in Upstreams : u[1] = "key"}
  /\ sdjwt = SdJwtIdle
  /\ mdoc = MdocIdle
  /\ WebIdle
  /\ AuditIdle
  /\ batch \in {[options |-> o, procs |-> [i \in 1..Len(vcs) |-> NewCall(vcs[i])]] :
                  o \in BatchOptions, vcs \in BatchInputs}

Calls == 1..Len(batch.procs)

validatorFrame == <<now, sessions, inflight, completions, matcher, upstream,
                    sdjwt, mdoc, auditLog, lastAppend, metadata, rateLimit>>

(* validateVC(vc, options) up to its first await: step 1 and resolveDID up *)
(* to its fetch or, without one, to its return                             *)
StartCall(i) ==
  LET p == batch.procs[i]
      did == CredentialTable[p.vc].issuer
      config == batch.options.trustConfig
  IN /\ p.pc = "new"
     /\ \A j \in 1..(i - 1) : batch.procs[j].pc # "new"
     /\ IF ~vcDecodes(p.vc)
          THEN /\ batch' = [batch EXCEPT !.procs[i].pc = "done",
                                         !.procs[i].result = FailedResult("decode_failed")]
               /\ UNCHANGED didCache
          ELSE IF resolveFetches(did, config, didCache, now)
            THEN /\ batch' = [batch EXCEPT !.procs[i].pc = "fetch"]
                 /\ UNCHANGED didCache
            ELSE LET out == resolveDID(did, config, didCache, now, upstream)
                 IN /\ batch' = [batch EXCEPT
                                   !.procs[i].pc = "resolved",
                                   !.procs[i].resolution =
                                     [success |-> out.success, hasKey |-> out.hasKey]]
                    /\ didCache' = out.cache
     /\ UNCHANGED trustAnchorCache
     /\ UNCHANGED validatorFrame

(* the fetch of resolveEBSIDID or resolveWebDID answers: it is called with *)
(* headers only, no signal and no timeout, and its promise settles when    *)
(* the host answers or the connection fails                                *)
FetchCall(i) ==
  LET p == batch.procs[i]
      out == resolveUpstream(CredentialTable[p.vc].issuer, batch.options.trustConfig,
                             didCache, now, upstream)
  IN /\ p.pc = "fetch"
     /\ upstream[CredentialTable[p.vc].issuer] # "silent"
     /\ batch' = [batch EXCEPT
                    !.procs[i].pc = "resolved",
                    !.procs[i].resolution =
                      [success |-> out.success, hasKey |-> out.hasKey]]
     /\ didCache' = out.cache
     /\ UNCHANGED trustAnchorCache
     /\ UNCHANGED validatorFrame

(* steps 3 to 8 and the return of validateVC *)
FinishCall(i) ==
  LET p == batch.procs[i]
      out == validateResolved(p.vc, batch.options, p.resolution, trustAnchorCache, now)
  IN /\ p.pc = "resolved"
     /\ batch' = [batch EXCEPT !.procs[i].pc = "done", !.procs[i].result = out.result]
     /\ trustAnchorCache' = out.trustAnchorCache
     /\ UNCHANGED didCache
     /\ UNCHANGED validatorFrame

ValidatorNext ==
  \/ \E i \in Calls : StartCall(i)
  \/ \E i \in Calls : FetchCall(i)
  \/ \E i \in Calls : FinishCall(i)

ValidatorSpec == ValidatorInit /\ [][ValidatorNext]_vars

(* the validator with upstream hosts that may stay silent *)
SilentInit ==
  /\ NoSessions
  /\ matcher = MatcherIdle
  /\ didCache = EmptyDidCache
  /\ trustAnchorCache = EmptyTrustAnchorCache
  /\ upstream \in SilentUpstreams
  /\ sdjwt = SdJwtIdle
  /\ mdoc = MdocIdle
  /\ WebIdle
  /\ AuditIdle
  /\ batch \in {[options |-> o, procs |-> [i \in 1..Len(vcs) |-> NewCall(vcs[i])]] :
                  o \in BatchOptions, vcs \in BatchInputs}

SilentSpec == SilentInit /\ [][ValidatorNext]_vars

(* ----------------------- the SD-JWT validator on its own --------------- *)
(* validateSDJWT (with requireMinimumDisclosures) and verifyAgeOver are    *)
(* called once each on a token, in either order, the caches starting empty *)
SdJwtInit ==
  /\ now \in {0, CacheTTL}
  /\ sessions = <<>>
  /\ inflight = EmptyBag
  /\ completions = <<>>
  /\ matcher = MatcherIdle
  /\ batch = BatchIdle
  /\ didCache = EmptyDidCache
  /\ trustAnchorCache = EmptyTrustAnchorCache
  /\ upstream = [d \in Dids |-> "none"]
  /\ mdoc = MdocIdle
  /\ WebIdle
  /\ AuditIdle
  /\ sdjwt \in {[SdJwtIdle EXCEPT !.token = tk, !.minimum = m, !.minAge = n] :
                  tk \in SdJwtTokens, m \in 0..(MaxDisclosures + 1), n \in MinAges}

sdJwtFrame == <<now, sessions, inflight, completions, matcher, batch,
                upstream, mdoc, auditLog, lastAppend, metadata, rateLimit>>

ValidateSdJwt ==
  LET out == validateSDJWT(sdjwt.token, SdJwtOptions(TRUE, TRUE, sdjwt.minimum),
                           didCache, trustAnchorCache, now, upstream)
  IN /\ ~sdjwt.validated
     /\ sdjwt' = [sdjwt EXCEPT !.validated = TRUE, !.validation = out.result]
     /\ didCache' = out.didCache
     /\ trustAnchorCache' = out.trustAnchorCache
     /\ UNCHANGED sdJwtFrame

VerifyAgeOver ==
  LET out == verifyAgeOver(sdjwt.token, sdjwt.minAge, didCache, trustAnchorCache,
                           now, upstream)
  IN /\ ~sdjwt.verified
     /\ sdjwt' = [sdjwt EXCEPT !.verified = TRUE, !.age = out.result]
     /\ didCache' = out.didCache
     /\ trustAnchorCache' = out.trustAnchorCache
     /\ UNCHANGED sdJwtFrame

SdJwtNext == ValidateSdJwt \/ VerifyAgeOver

SdJwtSpec == SdJwtInit /\ [][SdJwtNext]_vars

(* -------------------- the mobile-document validator on its own --------- *)
(* validateMDL is called on a document and verifyMSO on its MSO, once each *)
(* and in either order, while the clock advances                           *)
MdlInit ==
  /\ NoSessions
  /\ matcher = MatcherIdle
  /\ ResolverIdle
  /\ batch = BatchIdle
  /\ sdjwt = SdJwtIdle
  /\ AuditIdle
  /\ WebIdle
  /\ mdoc \in {[MdocIdle EXCEPT !.doc = d] : d \in MobileDocuments}

mdocFrame == <<sessionVars, matcher, resolverVars, batch, sdjwt, auditVars, webVars>>

ValidateMDL ==
  /\ ~mdoc.validated
  /\ mdoc' = [mdoc EXCEPT !.validated = TRUE, !.result = validateMDL(mdoc.doc)]
  /\ UNCHANGED mdocFrame

VerifyMSO ==
  /\ ~mdoc.verified
  /\ mdoc' = [mdoc EXCEPT !.verified = TRUE, !.mso = verifyMSO(mdoc.doc.mso, now)]
  /\ UNCHANGED mdocFrame

MdlNext == Tick \/ ValidateMDL \/ VerifyMSO

MdlSpec == MdlInit /\ [][MdlNext]_vars

(* ---------------------------- the audit log on its own ----------------- *)
(* the handlers that log append events, the periodic task of index.ts runs *)
(* cleanupExpiredAuditLogs, and the clock advances                         *)
AuditInit ==
  /\ NoSessions
  /\ matcher = MatcherIdle
  /\ ResolverIdle
  /\ batch = BatchIdle
  /\ sdjwt = SdJwtIdle
  /\ mdoc = MdocIdle
  /\ WebIdle
  /\ AuditIdle

auditFrame == <<sessionVars, matcher, resolverVars, batch, sdjwt, mdoc, webVars>>

LogAuditEvent(event, dbOk) ==
  LET out == logAuditEvent(auditLog, event, now, dbOk)
  IN /\ Len(auditLog) < MaxEntries
     /\ auditLog' = out.log
     /\ lastAppend' = [called |-> TRUE, dbOk |-> dbOk, returned |-> out.returned,
                       logged |-> out.logged, added |-> Len(out.log) - Len(auditLog),
                       response |-> auditedResponse(out.returned)]
     /\ UNCHANGED auditFrame

Cleanup(dbOk) ==
  /\ auditLog' = cleanupExpiredAuditLogs(auditLog, now, dbOk)
  /\ UNCHANGED lastAppend
  /\ UNCHANGED auditFrame

AuditNext ==
  \/ Tick
  \/ \E event \in AuditEvents, dbOk \in BOOLEAN : LogAuditEvent(event, dbOk)
  \/ \E dbOk \in BOOLEAN : Cleanup(dbOk)

AuditSpec == AuditInit /\ [][AuditNext]_vars

(* the audit log with its storage open to changes from outside the service *)
Tamper(i, column) ==
  /\ i \in 1..Len(auditLog)
  /\ ~auditLog[i].touched
  /\ auditLog' = [auditLog EXCEPT
                    ![i] = IF column = "content"
                             THEN [@ EXCEPT !.eventType = "tampered", !.touched = TRUE]
                             ELSE [@ EXCEPT !.previous_hash = <<4>> \o @, !.touched = TRUE]]
  /\ UNCHANGED lastAppend
  /\ UNCHANGED auditFrame

TamperNext ==
  \/ AuditNext
  \/ \E i \in 1..MaxEntries, column \in {"content", "previous_hash"} : Tamper(i, column)

TamperSpec == AuditInit /\ [][TamperNext]_vars

(* ------------------ the session state machine with the audit log ------ *)
(* the direct_post handlers run next to the handlers that log audit        *)
(* events; a handler that waits for its write gets it, and so does an      *)
(* append                                                                  *)
FairNext ==
  \/ Next
  \/ \E event \in AuditEvents, dbOk \in BOOLEAN : LogAuditEvent(event, dbOk)

Fairness ==
  /\ WF_vars(\E h \in Handlers : ExpireWrite(h))
  /\ WF_vars(\E h \in Handlers : FailWrite(h))
  /\ WF_vars(\E h \in Handlers : CompleteWrite(h))
  /\ WF_vars(\E event \in AuditEvents : LogAuditEvent(event, TRUE))

FairSpec == Init /\ [][FairNext]_vars /\ Fairness

(* ------------------- the matcher on descriptor-map paths --------------- *)
(* the paths a wallet may send: well-formed ones, one without a bracketed  *)
(* index, and ones with more or other than a single index selector         *)
PathShapes ==
  {Path0, Path1, PathNone,
   <<"$", "[", "0", "]", "[", "1", "]">>,
   <<"$", "[", "1", "]", "[", "0", "]">>,
   <<"$", "[", "*", "]">>,
   <<"$", "[", "]">>,
   <<"$", "[", "0">>,
   <<"$", "[", "0", "]", "x">>,
   <<"$", "x", "[", "1", "]">>}

PathInit ==
  /\ NoSessions
  /\ ResolverIdle
  /\ batch = BatchIdle
  /\ sdjwt = SdJwtIdle
  /\ mdoc = MdocIdle
  /\ WebIdle
  /\ AuditIdle
  /\ matcher \in
       {[pd |-> pd,
         vp |-> [hasSubmission |-> TRUE,
                 presentation_submission |->
                   [id |-> "sub-1", definition_id |-> "pd-1", hasMap |-> TRUE,
                    descriptor_map |-> <<Mapping(DescriptorNames[1], path)>>],
                 verifiableCredential |-> [i \in 1..n |-> 1]],
         done |-> FALSE, result |-> NoEvaluation] :
          pd \in {d \in MatcherDefinitions : Len(d.input_descriptors) >= 1},
          path \in PathShapes, n \in 0..MaxCredentials}

PathSpec == PathInit /\ [][MatcherNext]_vars

(* ------------------------ the discovery metadata on its own ------------ *)
(* the metadata is requested at any time, before and after issuers were    *)
(* looked up in the trust-anchor registry                                  *)
Configuration ==
  /\ metadata' = openid4vpConfiguration
  /\ UNCHANGED <<sessionVars, matcher, resolverVars, batch, sdjwt, mdoc, auditVars, rateLimit>>

MetadataNext ==
  \/ Tick
  \/ \E did \in Dids, config \in Configs : Trust(did, config)
  \/ Configuration

MetadataSpec == Init /\ [][MetadataNext]_vars

(* --------------------------- the rate limiter on its own --------------- *)
(* requests of the clients reach the limiters of the three mounts, the     *)
(* periodic task of index.ts cleans the store, and the clock advances      *)
rateFrame == <<sessions, inflight, completions, matcher, resolverVars, batch, sdjwt, mdoc,
               auditVars, metadata>>

Advance ==
  /\ now < RateHorizon
  /\ now' = now + 1
  /\ UNCHANGED rateLimit
  /\ UNCHANGED rateFrame

Limit(client, endpoint) ==
  LET out == createRateLimiter(RATE_LIMITS[endpoint], rateLimit.store, client, endpoint, now)
  IN /\ rateLimit.store[RateLimitKey(client, endpoint)].count < MaxCount
     /\ rateLimit' =
          [store |-> out.store,
           windows |-> CountPassed(rateLimit.windows, client, endpoint, out.passed, now),
           last |-> [client |-> client, endpoint |-> endpoint, passed |-> out.passed,
                     status |-> out.status, error |-> out.error,
                     retry_after |-> out.retry_after,
                     elapsed |-> WindowElapsed(rateLimit.windows[<<client, endpoint>>],
                                               endpoint, now)]]
     /\ UNCHANGED now
     /\ UNCHANGED rateFrame

CleanupStore ==
  /\ rateLimit' = [rateLimit EXCEPT !.store = cleanupRateLimitStore(@, now)]
  /\ UNCHANGED now
  /\ UNCHANGED rateFrame

RateNext ==
  \/ Advance
  \/ \E client \in Clients, endpoint \in Endpoints : Limit(client, endpoint)
  \/ CleanupStore

RateSpec == Init /\ [][RateNext]_vars

(* ------------------------------- properties ---------------------------- *)
Terminal == {"completed", "failed", "expired"}

SessionIds == 1..Len(sessions)

(* the handler h sends its response in this step *)
Leaves(h) == h \in Handlers /\ inflight' = inflight (-) SetToBag({h})

(* the handler h starts to wait for its write in this step *)
Enters(h) == CopiesIn(h, inflight') > CopiesIn(h, inflight)

(* the request r addresses an existing session *)
Addresses(r) == r[1] # NoToken /\ r[3] \in SessionIds

(* the request r reaches the validation steps of lines 72-158 *)
ReachesValidation(r) ==
  /\ Addresses(r)
  /\ sessions[r[3]].status = "pending"
  /\ now <= sessions[r[3]].expires_at

(* what the handler does with request r in the current state *)
Outcome(r) == directPost(r[1], r[2], r[3])

TypeOK ==
  /\ now \in 0..MaxTime
  /\ Len(sessions) <= MaxSessions
  /\ \A i \in SessionIds :
       sessions[i].status \in {"pending"} \cup Terminal
  /\ BagCardinality(inflight) <= NumProcs
  /\ \A h \in Handlers :
       h.pc \in {"expire", "fail", "complete"} /\ h.loc.session \in SessionIds

(* C1: terminal session statuses are final: once the persisted status is   *)
(* completed, failed or expired, no later step changes it.                 *)
C1_TerminalFinal ==
  [][\A i \in SessionIds :
       sessions[i].status \in Terminal => sessions'[i].status = sessions[i].status]_vars

C3_ExpiryOnRead ==
  /\ [](\A r \in Requests :
          Addresses(r) /\ sessions[r[3]].status = "pending" =>
            LET out == Outcome(r)
            IN IF now > sessions[r[3]].expires_at
                 THEN /\ out.pc = "expire" /\ out.loc.session = r[3]
                      /\ out.response.description = "session_is_expired"
                 ELSE /\ out.pc # "expire"
                      /\ out.response.description # "session_is_expired")
  /\ [][/\ \A h \in Handlers :
            h.pc = "expire" /\ Leaves(h) =>
              sessions'[h.loc.session].status = "expired"
        /\ \A h \in BagToSet(inflight') : Enters(h) => sessions' = sessions]_vars

C3_Witness ==
  \E i \in SessionIds :
    /\ sessions[i].status = "expired"
    /\ sessions[i].vp_token = NoToken
    /\ now > sessions[i].expires_at

(* C4: a submission addressed to a session whose status is failed,         *)
(* completed or expired is rejected at once, is not evaluated and leaves   *)
(* the store unchanged.                                                    *)
C4_TerminalRejected ==
  /\ [](\A r \in Requests :
          Addresses(r) /\ sessions[r[3]].status \in Terminal =>
            Outcome(r) = Answer(NotPendingResponse(sessions[r[3]].status)))
  /\ [][\A h \in BagToSet(inflight') :
          Enters(h) =>
            /\ sessions' = sessions
            /\ sessions[h.loc.session].status = "pending"]_vars

C4_Witness ==
  \E i \in SessionIds :
    /\ sessions[i].status = "failed"
    /\ Outcome(<<1, BodyAbsent, i>>).response.description = "session_is_failed"

(* the error of the first validation step that r does not pass, "none" if  *)
(* it passes them all: token decode, submission parse, submission present, *)
(* submission structure, definition match                                  *)
FirstFailure(r) ==
  LET token == TokenTable[r[1]]
      body == r[2]
      pd == DefinitionTable[sessions[r[3]].presentation_definition]
      data == IF body.kind = "absent" THEN token.vp.presentation_submission
              ELSE IF body.kind = "object" THEN body.value
              ELSE body.text[2]
      embedded == token.vp.presentation_submission
  IN IF ~token.decodes THEN "invalid_vp_token"
     ELSE IF body.kind = "string" /\ body.text = BadJSON THEN "invalid_request"
     ELSE IF data = NoSubmission THEN "invalid_request"
     ELSE IF ~SubmissionTable[data].hasMap THEN "invalid_presentation_submission"
     ELSE IF embedded = NoSubmission THEN "invalid_presentation"
     ELSE IF SubmissionTable[embedded].definition_id # pd.id THEN "invalid_presentation"
     ELSE IF ~SubmissionTable[embedded].hasMap THEN "invalid_presentation"
     ELSE IF ~evaluatePresentationSubmission(Presentation(token.vp), pd).valid
       THEN "invalid_presentation"
     ELSE "none"

(* C5: a submission to a pending session that does not pass a validation   *)
(* step sets the session to failed and answers with the error of the first *)
(* step it does not pass.                                                  *)
C5_FirstFailureFails ==
  \A r \in Requests :
    ReachesValidation(r) /\ FirstFailure(r) # "none" =>
      LET out == Outcome(r)
      IN /\ out.pc = "fail"
         /\ out.loc.session = r[3]
         /\ out.response.status = 400
         /\ out.response.error = FirstFailure(r)

(* C6: a direct-post without vp_token, without state or with a state that  *)
(* matches no session is answered invalid_request at once: no write is     *)
(* issued and no session is created, modified or deleted.                  *)
C6_BadRequestNoChange ==
  \A r \in Requests :
    (r[1] = NoToken \/ r[3] = NoState \/ r[3] \notin SessionIds) =>
      LET out == Outcome(r)
      IN /\ out.pc = "idle"
         /\ out.loc = NoLoc
         /\ out.response.status = 400
         /\ out.response.error = "invalid_request"

C6_Witness ==
  /\ Len(sessions) >= 1
  /\ Outcome(<<1, BodyAbsent, Len(sessions) + 1>>).response.description = "invalid_state"
  /\ Outcome(<<NoToken, BodyAbsent, 1>>).response.description = "missing_vp_token"

(* the request of the id_credential scenario: the token of a valid signed  *)
(* credential whose descriptor map has id_credential at index 0            *)
ScenarioRequest(r) ==
  /\ ReachesValidation(r)
  /\ r[2] = BodyAbsent
  /\ TokenTable[r[1]].decodes /\ TokenTable[r[1]].sigOk
  /\ TokenTable[r[1]].vp.verifiableCredential = <<1>>
  /\ TokenTable[r[1]].vp.presentation_submission # NoSubmission
  /\ LET submission == SubmissionTable[TokenTable[r[1]].vp.presentation_submission]
     IN /\ submission.definition_id =
             DefinitionTable[sessions[r[3]].presentation_definition].id
        /\ submission.descriptor_map = <<Mapping("id_credential", Path0)>>

C8_BadTokenRejected ==
  \A r \in Requests :
    ReachesValidation(r)
      /\ (~TokenTable[r[1]].decodes \/ ~TokenTable[r[1]].sigOk) =>
        LET out == Outcome(r)
        IN out.pc = "fail" /\ out.response.error = "invalid_vp_token"

(* C9: a token completes a session only if the nonce it carries is the     *)
(* nonce generated for that session.                                       *)
C9_NonceBound ==
  \A i \in SessionIds :
    sessions[i].vp_token # NoToken =>
      NonceOf(TokenTable[sessions[i].vp_token].nonce) = NonceOf(i)

(* C10: no session reaches completed unless every credential embedded in   *)
(* the presentation passed its credential validator.                       *)
C10_CredentialsValidated ==
  \A i \in SessionIds :
    sessions[i].vp_token # NoToken =>
      validateVCBatch(TokenTable[sessions[i].vp_token].vp.verifiableCredential,
                      DefaultOptions, didCache, trustAnchorCache, now, upstream).valid

(* ------------------- properties of the presentation matcher ------------ *)
(* the evaluation has run on a submission that names the definition        *)
Evaluated ==
  /\ matcher.done
  /\ ~matcher.result.threw
  /\ matcher.vp.hasSubmission
  /\ matcher.vp.presentation_submission.definition_id = matcher.pd.id

MatcherDescriptors ==
  {matcher.pd.input_descriptors[i] : i \in 1..Len(matcher.pd.input_descriptors)}

MatcherMap == matcher.vp.presentation_submission.descriptor_map

(* every field of d is marked optional; so is an empty field list, while a *)
(* descriptor without a fields key is required                             *)
WhollyOptional(d) == d.hasFields /\ \A i \in 1..Len(d.fields) : d.fields[i].optional

(* the credential-array index a path selects, -1 if it has none *)
PathIndex(path) == IF path = Path0 THEN 0 ELSE IF path = Path1 THEN 1 ELSE -1

(* the map entry at position k points at an existing credential *)
PointsAtCredential(k) ==
  /\ PathIndex(MatcherMap[k].path) >= 0
  /\ PathIndex(MatcherMap[k].path) < Len(matcher.vp.verifiableCredential)

EntriesOf(d) == {k \in 1..Len(MatcherMap) : MatcherMap[k].id = d.id}

Matched == {matcher.result.matchedDescriptors[i] :
              i \in 1..Len(matcher.result.matchedDescriptors)}

(* the descriptor ids the mismatch reasons name *)
Blamed == {matcher.result.errors[i][2] : i \in 1..Len(matcher.result.errors)}

(* C11: when the submission names the definition and every descriptor that *)
(* is not wholly optional is mapped to an existing credential, the result  *)
(* is valid and the matched descriptors are exactly the descriptors that   *)
(* are not wholly optional, however the wholly optional ones are mapped.   *)
C11_RequiredMappedIsValid ==
  (/\ Evaluated
   /\ \A d \in MatcherDescriptors :
        ~WhollyOptional(d) =>
          EntriesOf(d) # {} /\ \A k \in EntriesOf(d) : PointsAtCredential(k))
    => /\ matcher.result.valid
       /\ Matched = {d.id : d \in {e \in MatcherDescriptors : ~WhollyOptional(e)}}

(* C12: the result is valid only if the submission names the definition    *)
(* and every descriptor that is not wholly optional is matched; a          *)
(* definition mismatch is invalid with nothing matched; an unmatched       *)
(* required descriptor makes the result invalid and is named by a reason.  *)
C12_ValidOnlyIfMatched ==
  (matcher.done /\ ~matcher.result.threw) =>
    /\ matcher.result.valid =>
         /\ Evaluated
         /\ \A d \in MatcherDescriptors : ~WhollyOptional(d) => d.id \in Matched
    /\ (matcher.vp.hasSubmission /\ ~Evaluated) =>
         ~matcher.result.valid /\ matcher.result.matchedDescriptors = <<>>
    /\ Evaluated =>
         \A d \in MatcherDescriptors :
           (~WhollyOptional(d) /\ d.id \notin Matched) =>
             ~matcher.result.valid /\ d.id \in Blamed

(* C13: a descriptor with no entry in the descriptor map makes the result  *)
(* invalid with a reason recorded, unless every one of its fields is       *)
(* optional (an empty field list included): then no reason names it.       *)
C13_UnmappedDescriptor ==
  Evaluated =>
    \A d \in MatcherDescriptors :
      EntriesOf(d) = {} =>
        IF WhollyOptional(d)
          THEN d.id \notin Blamed
          ELSE ~matcher.result.valid /\ matcher.result.errors # <<>>

(* C14: of several map entries for one descriptor id the first in map      *)
(* order alone decides: the descriptor is matched iff that entry points at *)
(* an existing credential.                                                 *)
C14_FirstMappingDecides ==
  Evaluated =>
    \A d \in MatcherDescriptors :
      d.id \in Matched <=>
        /\ EntriesOf(d) # {}
        /\ PointsAtCredential(CHOOSE k \in EntriesOf(d) : \A j \in EntriesOf(d) : k <= j)

C14_Witness ==
  /\ Evaluated
  /\ \E d \in MatcherDescriptors : \E k, j \in EntriesOf(d) :
       /\ k < j
       /\ \A i \in EntriesOf(d) : k <= i
       /\ ~PointsAtCredential(k)
       /\ PointsAtCredential(j)
       /\ d.id \notin Matched

(* C15: evaluatePresentationSubmission never throws: every presentation    *)
(* and definition, a submission without descriptor map included, gets a    *)
(* result.                                                                 *)
C15_NeverThrows == matcher.done => ~matcher.result.threw

(* --------------------- properties of the trust resolver ---------------- *)
(* the entry of a cache is within its TTL at the clock *)
WithinTTL(entry) == entry.cached /\ now - entry.timestamp < CacheTTL

(* the registry row of a DID is an anchor that is active and not past its  *)
(* validUntil at the clock                                                 *)
ActiveAnchor(did) ==
  /\ DidTable[did].status = "active"
  /\ DidTable[did].validUntil = NoTime \/ now < DidTable[did].validUntil

(* the call reads an anchor: from the cache, or from the registry its      *)
(* configuration enables                                                   *)
ReadsAnchor(did, config) ==
  \/ WithinTTL(trustAnchorCache[did])
  \/ config.enableMockTrustAnchors /\ DidTable[did].status # "none"

(* C16: isTrustedIssuer reports trusted iff the anchor it reads, from the  *)
(* registry or from the cache, is active with validUntil absent or in the  *)
(* future; a cached anchor within its TTL is answered without a registry   *)
(* query even when its validUntil has passed; no anchor, a suspended or a  *)
(* revoked anchor is never trusted.                                        *)
C16_TrustedIffActiveAnchor ==
  \A did \in Dids, config \in Configs :
    LET out == isTrustedIssuer(did, config, trustAnchorCache, now)
    IN /\ out.trusted <=> ReadsAnchor(did, config) /\ ActiveAnchor(did)
       /\ WithinTTL(trustAnchorCache[did]) =>
            out.source = "cache" /\ out.cache = trustAnchorCache
       /\ DidTable[did].status \in {"none", "suspended", "revoked"} => ~out.trusted

(* an anchor cached while valid, still within its TTL, past its validUntil *)
C16_Witness ==
  \E did \in Dids :
    /\ WithinTTL(trustAnchorCache[did])
    /\ trustAnchorCache[did].timestamp < DidTable[did].validUntil
    /\ DidTable[did].validUntil <= now
    /\ ~isTrustedIssuer(did, DefaultConfig, trustAnchorCache, now).trusted

(* the configuration has a strategy for the DID *)
HasStrategy(did, config) ==
  \/ config.enableMockTrustAnchors
  \/ config.enableEBSI /\ DidTable[did].method = "ebsi"
  \/ DidTable[did].method = "web"

Returned(i) == batch.procs[i].pc = "done"

AllReturned == \A i \in Calls : Returned(i)

(* the credential of call i, its result, and what resolveDID and           *)
(* isTrustedIssuer answer for its issuer under the options of the batch    *)
CredentialOf(i) == CredentialTable[batch.procs[i].vc]
ResultOf(i) == batch.procs[i].result

IssuerResolves(i) ==
  /\ vcDecodes(batch.procs[i].vc)
  /\ resolveDID(CredentialOf(i).issuer, batch.options.trustConfig,
                didCache, now, upstream).success

IssuerHasKey(i) ==
  /\ IssuerResolves(i)
  /\ resolveDID(CredentialOf(i).issuer, batch.options.trustConfig,
                didCache, now, upstream).hasKey

AnchorLookup(i) ==
  isTrustedIssuer(CredentialOf(i).issuer, batch.options.trustConfig,
                  trustAnchorCache, now)

(* the call got as far as step 7, the trust check *)
ReachedTrustCheck(i) == IssuerHasKey(i) /\ CredentialOf(i).sigOk

(* C18: a lookup that finds no anchor answers not trusted, and the result  *)
(* of a credential whose issuer is not found trusted carries trusted:      *)
(* false; a credential whose issuer does not resolve or has no key is      *)
(* invalid and its result never carries trusted: true.                     *)
C18_FailureNeverTrusted ==
  /\ \A did \in Dids, config \in Configs :
       LET out == isTrustedIssuer(did, config, trustAnchorCache, now)
       IN out.source = "none" => ~out.trusted
  /\ \A i \in Calls :
       Returned(i) =>
         /\ ~IssuerHasKey(i) =>
              ~ResultOf(i).valid /\ ~(ResultOf(i).hasTrusted /\ ResultOf(i).trusted)
         /\ ReachedTrustCheck(i) /\ batch.options.checkTrust
              /\ AnchorLookup(i).source = "none" =>
              ResultOf(i).hasTrusted /\ ~ResultOf(i).trusted

(* one credential whose issuer does not resolve or has no key, and one     *)
(* that reached the trust check with no anchor found                       *)
C18_Witness ==
  /\ \E i \in Calls :
       Returned(i) /\ vcDecodes(batch.procs[i].vc) /\ ~IssuerHasKey(i)
  /\ \E i \in Calls :
       /\ Returned(i) /\ ReachedTrustCheck(i) /\ batch.options.checkTrust
       /\ AnchorLookup(i).source = "none"
       /\ ResultOf(i).hasTrusted /\ ~ResultOf(i).trusted

(* vc.expirationDate is set and before the clock *)
Expired(i) ==
  CredentialOf(i).expirationDate # NoTime /\ CredentialOf(i).expirationDate < now

BatchInput == [i \in Calls |-> batch.procs[i].vc]
BatchResults == [i \in Calls |-> ResultOf(i)]

(* C20: once every validation of the batch has returned, in whatever order *)
(* their steps ran, results[i] is what validateVC returns for credential i *)
(* validated alone, the results are those of the credentials validated one *)
(* after the other, valid holds iff every result is valid and allTrusted   *)
(* iff every result carries trusted: true.                                 *)
C20_BatchOrderIndependent ==
  AllReturned =>
    LET out == Aggregate(BatchResults)
    IN /\ \A i \in Calls :
            out.results[i] =
              validateVC(BatchInput[i], batch.options, EmptyDidCache,
                         EmptyTrustAnchorCache, now, upstream).result
       /\ out = validateVCBatch(BatchInput, batch.options, EmptyDidCache,
                                EmptyTrustAnchorCache, now, upstream)
       /\ out.valid <=> \A i \in Calls : ResultOf(i).valid
       /\ out.allTrusted <=>
            \A i \in Calls : ResultOf(i).hasTrusted /\ ResultOf(i).trusted

(* two credentials of one issuer, one valid and one not, both returned *)
C20_Witness ==
  /\ AllReturned
  /\ \E i, j \in Calls :
       /\ i # j
       /\ CredentialOf(i).issuer = CredentialOf(j).issuer
       /\ ResultOf(i).valid /\ ~ResultOf(j).valid
       /\ ~Aggregate(BatchResults).valid

(* -------------------- properties of the SD-JWT validator --------------- *)
(* C21: with requireMinimumDisclosures given, a token that discloses fewer *)
(* claims than the minimum is not reported valid.                          *)
C21_MinimumDisclosuresEnforced ==
  sdjwt.validated /\ sdjwt.minimum # 0
    /\ Len(sdjwt.token.disclosures) < sdjwt.minimum =>
      ~sdjwt.validation.valid

(* the token discloses a claim age_over_K, whatever its value *)
DisclosesThreshold ==
  \E i \in 1..Len(sdjwt.token.disclosures) :
    sdjwt.token.disclosures[i].name = "age_over_"

(* C22: when any age_over_K claim is disclosed the birthdate is not used   *)
(* to return verified.                                                     *)
C22_BirthdateOnlyWithoutThreshold ==
  sdjwt.verified /\ DisclosesThreshold =>
    ~(sdjwt.age.verified /\ sdjwt.age.via = "birthdate")

(* the thresholds K >= minAge disclosed as true *)
TrueThresholds ==
  {parseAge(sdjwt.token.disclosures[i].suffix) :
     i \in {j \in 1..Len(sdjwt.token.disclosures) :
              /\ sdjwt.token.disclosures[j].name = "age_over_"
              /\ IsTrue(sdjwt.token.disclosures[j].value)
              /\ parseAge(sdjwt.token.disclosures[j].suffix) >= sdjwt.minAge}}

(* verifyAgeOver ran on a token that validateSDJWT accepts *)
AgeCheckedOnValid == sdjwt.verified /\ sdjwt.age.via # "invalid"

(* C23: on a valid token that discloses age_over_K: true for some          *)
(* K >= minAge the check returns verified with ageOver one of these K;     *)
(* without such a claim only a birthdate makes it return verified.         *)
C23_HigherThresholdVerifies ==
  AgeCheckedOnValid =>
    /\ TrueThresholds # {} =>
         sdjwt.age.verified /\ sdjwt.age.hasAgeOver
           /\ sdjwt.age.ageOver \in TrueThresholds
    /\ TrueThresholds = {} /\ sdjwt.age.verified => sdjwt.age.via = "birthdate"

(* age_over_21: true without age_over_18, asked for 18, answered 21 *)
C23_Witness ==
  /\ AgeCheckedOnValid
  /\ sdjwt.minAge = 18
  /\ TrueThresholds = {21}
  /\ \E i \in 1..Len(sdjwt.token.disclosures) :
       /\ sdjwt.token.disclosures[i].name = "age_over_"
       /\ parseAge(sdjwt.token.disclosures[i].suffix) < sdjwt.minAge
       /\ IsTrue(sdjwt.token.disclosures[i].value)
  /\ sdjwt.age.verified /\ sdjwt.age.ageOver = 21

(* C24: the mobile-document validator never reports valid: true for a      *)
(* document whose MSO issuer signature was not cryptographically verified: *)
(* a result of validateMDL or verifyMSO that is valid either made the      *)
(* signature check or carries a warning.                                   *)
C24_ValidOnlyIfSignatureVerified ==
  /\ mdoc.validated /\ mdoc.result.valid =>
       "signature" \in mdoc.result.checks \/ mdoc.result.warnings # {}
  /\ mdoc.verified /\ mdoc.mso.valid =>
       "signature" \in mdoc.mso.checks \/ mdoc.mso.warnings # {}

(* C25: the audit log is one linear hash chain after any interleaving of   *)
(* appends: every entry stores previous_hash equal to the current_hash of  *)
(* the entry appended immediately before it and current_hash =             *)
(* H(serialize(event) || previous_hash), and no two entries are computed   *)
(* against the same previous_hash.                                         *)
C25_LinearHashChain ==
  /\ \A i \in 1..Len(auditLog) :
       /\ auditLog[i].current_hash = H(serialize(auditLog[i]), auditLog[i].previous_hash)
       /\ i > 1 => auditLog[i].previous_hash = auditLog[i - 1].current_hash
  /\ \A i, j \in 1..Len(auditLog) :
       i # j => auditLog[i].previous_hash # auditLog[j].previous_hash

(* C26: verifyChain over any prefix of the appended audit entries succeeds *)
(* iff no entry of that prefix was mutated: a changed content or           *)
(* previous_hash makes it fail, and an untouched prefix always verifies.   *)
C26_VerifyChainIffUntouched ==
  \A n \in 0..Len(auditLog) :
    verifyChain(SubSeq(auditLog, 1, n)) <=> \A i \in 1..n : ~auditLog[i].touched

(* C27: audit entries are append-only: no step of the running service, the *)
(* periodic maintenance task included, updates or deletes an entry once it *)
(* is appended.                                                            *)
C27_AppendOnly ==
  [][/\ Len(auditLog') >= Len(auditLog)
     /\ \A i \in 1..Len(auditLog) : auditLog'[i] = auditLog[i]]_vars

(* the audit log holds an entry that references session i *)
Audited(i) == \E k \in 1..Len(auditLog) : auditLog[k].resource = i

(* C28: every session transition to completed or failed is eventually      *)
(* followed by the append of an audit entry that references that session.  *)
C28_OutcomeAudited ==
  \A i \in 1..MaxSessions :
    (Len(sessions) >= i /\ sessions[i].status \in {"completed", "failed"}) ~> Audited(i)

(* C29: an audit append that fails is logged and reported to its caller as *)
(* a false result; it does not throw, the caller's response is the one of  *)
(* a successful append, and it adds no entry.                              *)
C29_FailedAppendContained ==
  lastAppend.called /\ ~lastAppend.dbOk =>
    /\ lastAppend.returned = "false"
    /\ lastAppend.logged
    /\ lastAppend.added = 0
    /\ lastAppend.response = "success"

(* an append has failed after another one had added its entry *)
C29_Witness ==
  /\ lastAppend.called
  /\ ~lastAppend.dbOk
  /\ lastAppend.returned = "false"
  /\ auditLog # <<>>

(* C30: each session that ends failed or expired was driven there by       *)
(* exactly one rejected request, also when several failing submissions for *)
(* the session run concurrently: a rejected request never writes failed or *)
(* expired to a session that another rejected request has already driven   *)
(* there.                                                                   *)
C30_ExactlyOneRejection ==
  [][\A h \in Handlers :
       Leaves(h) /\ h.pc \in {"fail", "expire"} =>
         sessions[h.loc.session].status \notin {"failed", "expired"}]_vars

(* C31: the discovery metadata's trust-anchor list contains exactly the    *)
(* anchors whose status is active at generation time; a suspended or       *)
(* revoked anchor never appears in it, whatever the caches hold and        *)
(* whatever the time is.                                                   *)
C31_MetadataListsActiveAnchors ==
  metadata.generated =>
    \A d \in Dids : d \in metadata.trust_anchors <=> DidTable[d].status = "active"

(* the metadata is generated after a suspended and a revoked anchor were   *)
(* looked up and cached and after the validUntil of an active one passed   *)
C31_Witness ==
  /\ metadata.generated
  /\ \E d \in Dids : DidTable[d].status = "suspended" /\ trustAnchorCache[d].cached
  /\ \E d \in Dids : DidTable[d].status = "revoked" /\ trustAnchorCache[d].cached
  /\ \E d \in metadata.trust_anchors :
       DidTable[d].validUntil # NoTime /\ DidTable[d].validUntil < now

(* C32: within one time window at most maxRequests requests of a client to *)
(* an endpoint are passed on to the handler; a further request in that     *)
(* window is answered 429 too_many_requests with a retry_after value, and  *)
(* once the window has elapsed the next request is admitted.               *)
C32_RateLimited ==
  /\ \A w \in Clients \X Endpoints :
       rateLimit.windows[w].passed <= RATE_LIMITS[w[2]].maxRequests
  /\ ~rateLimit.last.passed /\ rateLimit.last.endpoint # "none" =>
       /\ rateLimit.last.status = 429
       /\ rateLimit.last.error = "too_many_requests"
       /\ rateLimit.last.retry_after # NoTime
       /\ ~rateLimit.last.elapsed

(* a path with a single index selector: "$", "[", digits, "]" *)
WellFormedPath(path) ==
  /\ Len(path) >= 4
  /\ path[1] = "$"
  /\ path[2] = "["
  /\ DigitRun(path, 3) = Len(path) - 3
  /\ path[Len(path)] = "]"

(* the path selects an existing element of the credential array *)
ResolvesToCredential(path) ==
  /\ WellFormedPath(path)
  /\ ParseInt(path, 3, Len(path) - 1) < Len(matcher.vp.verifiableCredential)

(* C34: a descriptor-map path that does not resolve to an existing element *)
(* of the credential array records a mismatch and leaves the descriptor    *)
(* unmatched; a malformed path is never treated as a valid index.          *)
C34_UnresolvedPathMismatch ==
  Evaluated =>
    \A d \in MatcherDescriptors :
      \A k \in EntriesOf(d) :
        ~ResolvesToCredential(MatcherMap[k].path) =>
          d.id \notin Matched /\ d.id \in Blamed

(* C33: no session ever returns to pending: pending is assigned only when  *)
(* a session is created, and no lookup, submission, completion or status   *)
(* update writes pending to an existing session.                           *)
C33_NeverBackToPending ==
  [][\A i \in SessionIds :
       sessions[i].status # "pending" => sessions'[i].status # "pending"]_vars

(* a status update has been written to a session that had left pending:   *)
(* a session completed earlier now carries the status of a later update    *)
C33_Witness ==
  \E i \in SessionIds :
    /\ sessions[i].status \in {"failed", "expired"}
    /\ sessions[i].completed_at # NoTime

(* C37: no session is completed after its expiry: the completed_at of a    *)
(* completed session is not later than its expires_at, also when the       *)
(* expiry falls between the lookup by state and the completion write.      *)
C37_CompletedBeforeExpiry ==
  \A i \in SessionIds :
    sessions[i].status = "completed" => sessions[i].completed_at <= sessions[i].expires_at

(* C38: the presentation submission stored with a completed session is the *)
(* submission that was evaluated against the session's definition, the one *)
(* the stored VP token embeds.                                             *)
C38_StoredSubmissionEvaluated ==
  \A i \in SessionIds :
    sessions[i].status = "completed" =>
      sessions[i].presentation_submission =
        JSONStringify(decodeJWT(sessions[i].vp_token).payload.presentation_submission)

(* the session holds the three fields a completion stores *)
HoldsPresentation(session) ==
  /\ session.vp_token # NoToken
  /\ session.presentation_submission # NoStored
  /\ session.completed_at # NoTime

(* C40: in every reachable state a session holds a stored vp_token,        *)
(* presentation_submission and completed_at iff its status is completed.   *)
C40_StoredIffCompleted ==
  \A i \in SessionIds :
    HoldsPresentation(sessions[i]) <=> sessions[i].status = "completed"

(* C39: the answer of resolveDID and isTrustedIssuer for an issuer and a   *)
(* configuration does not depend on earlier calls made with another        *)
(* configuration: a call with the mock trust anchors disabled reports no   *)
(* issuer trusted (the mock registry is the only one) and returns no       *)
(* document for a DID that no upstream service has one for, whatever       *)
(* earlier calls have left in the caches.                                  *)
C39_MockDisabledIgnoresMockEntries ==
  \A did \in Dids, config \in Configs :
    ~config.enableMockTrustAnchors =>
      /\ ~isTrustedIssuer(did, config, trustAnchorCache, now).trusted
      /\ upstream[did] = "none" =>
           ~resolveDID(did, config, didCache, now, upstream).success

(* C35: resolveDID and isTrustedIssuer are safe to retry: a call that      *)
(* fails (not found, upstream error, a result without a document) leaves   *)
(* the cache as it was, a cache is written only with the result of a       *)
(* successful call, and the retry after a failure goes to the resolution   *)
(* strategy again and is not answered from the cache.                      *)
C35_SafeToRetry ==
  \A did \in Dids, config \in Configs :
    LET r == resolveDID(did, config, didCache, now, upstream)
        retry == resolveDID(did, config, r.cache, now, upstream)
        a == isTrustedIssuer(did, config, trustAnchorCache, now)
        again == isTrustedIssuer(did, config, a.cache, now)
    IN /\ ~r.success =>
            /\ r.cache = didCache
            /\ retry.source # "cache" /\ retry.queried = r.queried
       /\ r.cache # didCache =>
            /\ r.success
            /\ r.cache = [didCache EXCEPT ![did] = [cached |-> TRUE, timestamp |-> now,
                                                    hasKey |-> r.hasKey]]
       /\ a.source = "none" =>
            a.cache = trustAnchorCache /\ again.source = "none"
       /\ a.cache # trustAnchorCache =>
            /\ a.source = "registry"
            /\ a.cache = [trustAnchorCache EXCEPT ![did] = [cached |-> TRUE,
                                                            timestamp |-> now]]

(* with entries of earlier successful calls in both caches, a call gets a  *)
(* body without a document, another one an error, and a lookup no anchor   *)
C35_Witness ==
  /\ \E did \in Dids : WithinTTL(didCache[did])
  /\ \E did \in Dids : WithinTTL(trustAnchorCache[did])
  /\ \E did \in Dids, config \in Configs :
       /\ upstream[did] = "empty"
       /\ resolveFetches(did, config, didCache, now)
       /\ ~resolveDID(did, config, didCache, now, upstream).success
  /\ \E did \in Dids, config \in Configs :
       /\ ~WithinTTL(trustAnchorCache[did])
       /\ isTrustedIssuer(did, config, trustAnchorCache, now).source = "none"

(* C36: every resolve call terminates: a call that waits for the registry  *)
(* or the document host is never stuck, the step that ends its wait (the   *)
(* answer, or a transient error after a bounded wait) can always be taken, *)
(* so the credential validation awaiting it returns as well.               *)
C36_ResolveNeverStuck ==
  \A i \in Calls :
    batch.procs[i].pc = "fetch" => ENABLED FetchCall(i)

====
